---- MODULE Spec2Model ----
(***************************************************************************)
(* Slack MCP server: the call-tool dispatcher, the API gateway            *)
(* (SlackClient.makeApiRequest), the two-phase upload coordinator          *)
(* (SlackClient.uploadFile_v2) and the process resilience harness of       *)
(* main().                                                                 *)
(***************************************************************************)
EXTENDS Integers, Sequences, FiniteSets, TLC

(***************************************************************************)
(* JavaScript values.  A value is a pair <<type, payload>>; an object is   *)
(* the sequence of its <<key, value>> entries in insertion order.          *)
(***************************************************************************)
Undefined == <<"undefined", "">>
Null == <<"null", "">>
Bool(b) == <<"boolean", b>>
Str(s) == <<"string", s>>
Num(n) == <<"number", n>>
Arr(elems) == <<"array", elems>>
Obj(entries) == <<"object", entries>>

TypeOf(v) == v[1]

\* JavaScript truthiness, as used by `!x`, `a || b` and `if (x)`.
Truthy(v) ==
  CASE TypeOf(v) = "undefined" -> FALSE
    [] TypeOf(v) = "null" -> FALSE
    [] TypeOf(v) = "boolean" -> v[2]
    [] TypeOf(v) = "string" -> v[2] # ""
    [] TypeOf(v) = "number" -> v[2] # 0
    [] OTHER -> TRUE

\* Property read `o.k` on an object value (undefined when the key is absent).
Get(o, k) ==
  IF \E n \in 1..Len(o[2]) : o[2][n][1] = k
  THEN o[2][CHOOSE n \in 1..Len(o[2]) : o[2][n][1] = k][2]
  ELSE Undefined

\* Property write `o.k = v`: replaces the entry or appends a new one.
Put(o, k, v) ==
  IF \E n \in 1..Len(o[2]) : o[2][n][1] = k
  THEN Obj([n \in 1..Len(o[2]) |->
              IF o[2][n][1] = k THEN <<k, v>> ELSE o[2][n]])
  ELSE Obj(Append(o[2], <<k, v>>))

Quote(s) == "\"" \o s \o "\""

RECURSIVE Join(_, _)
Join(parts, sep) ==
  IF Len(parts) = 0 THEN ""
  ELSE IF Len(parts) = 1 THEN parts[1]
  ELSE parts[1] \o sep \o Join(Tail(parts), sep)

RECURSIVE Concat(_)
Concat(parts) == IF Len(parts) = 0 THEN "" ELSE parts[1] \o Concat(Tail(parts))

SelectEntries(entries) == SelectSeq(entries, LAMBDA e : TypeOf(e[2]) # "undefined")

\* JSON.stringify(v): undefined-valued properties are dropped, undefined
\* array elements become null.  The strings of the model hold no character
\* that needs escaping.
RECURSIVE Stringify(_)
Stringify(v) ==
  CASE TypeOf(v) = "null" -> "null"
    [] TypeOf(v) = "undefined" -> "null"
    [] TypeOf(v) = "boolean" -> IF v[2] THEN "true" ELSE "false"
    [] TypeOf(v) = "number" -> ToString(v[2])
    [] TypeOf(v) = "string" -> Quote(v[2])
    [] TypeOf(v) = "array" ->
         "[" \o Join([n \in 1..Len(v[2]) |-> Stringify(v[2][n])], ",") \o "]"
    [] TypeOf(v) = "object" ->
         LET kept == SelectEntries(v[2])
         IN "{" \o Join([n \in 1..Len(kept) |->
                           Quote(kept[n][1]) \o ":" \o Stringify(kept[n][2])], ",")
                \o "}"

ToolCatalog ==
  <<
    [name |-> "slack_list_channels", required |-> <<>>],
    [name |-> "slack_post_message", required |-> <<"channel_id", "text">>],
    [name |-> "slack_reply_to_thread", required |-> <<"channel_id", "thread_ts", "text">>],
    [name |-> "slack_add_reaction", required |-> <<"channel_id", "timestamp", "reaction">>],
    [name |-> "slack_get_channel_history", required |-> <<"channel_id">>],
    [name |-> "slack_get_thread_replies", required |-> <<"channel_id", "thread_ts">>],
    [name |-> "slack_get_users", required |-> <<>>],
    [name |-> "slack_get_user_profile", required |-> <<"user_id">>],
    [name |-> "slack_user_email", required |-> <<"email">>],
    [name |-> "slack_canvas_create", required |-> <<>>],
    [name |-> "slack_canvas_edit", required |-> <<"canvas_id", "changes">>],
    [name |-> "slack_channel_canvas_create", required |-> <<"channel_id">>],
    [name |-> "slack_canvas_get", required |-> <<"canvas_id">>],
    [name |-> "slack_canvas_delete", required |-> <<"canvas_id">>],
    [name |-> "slack_canvas_access_set", required |-> <<"canvas_id", "access_level">>],
    [name |-> "slack_files_upload", required |-> <<"content", "filename">>],
    [name |-> "slack_files_list", required |-> <<>>],
    [name |-> "slack_files_info", required |-> <<"file">>],
    [name |-> "slack_files_delete", required |-> <<"file">>],
    [name |-> "slack_files_getUploadURLExternal", required |-> <<"filename", "length">>],
    [name |-> "slack_files_completeUploadExternal", required |-> <<"files">>],
    [name |-> "slack_files_upload_v2", required |-> <<>>],
    [name |-> "slack_search_messages", required |-> <<"query">>],
    [name |-> "slack_search_files", required |-> <<"query">>],
    [name |-> "slack_reminders_add", required |-> <<"text", "time">>],
    [name |-> "slack_reminders_list", required |-> <<>>],
    [name |-> "slack_reminders_delete", required |-> <<"reminder">>],
    [name |-> "slack_conversation_create", required |-> <<"name">>],
    [name |-> "slack_conversation_archive", required |-> <<"channel">>],
    [name |-> "slack_conversation_unarchive", required |-> <<"channel">>],
    [name |-> "slack_conversation_invite", required |-> <<"channel", "users">>],
    [name |-> "slack_conversation_kick", required |-> <<"channel", "user">>],
    [name |-> "slack_conversation_rename", required |-> <<"channel", "name">>],
    [name |-> "slack_conversation_set_purpose", required |-> <<"channel", "purpose">>],
    [name |-> "slack_conversation_set_topic", required |-> <<"channel", "topic">>],
    [name |-> "slack_conversation_join", required |-> <<"channel">>],
    [name |-> "slack_conversation_leave", required |-> <<"channel">>],
    [name |-> "slack_pins_add", required |-> <<"channel", "timestamp">>],
    [name |-> "slack_pins_remove", required |-> <<"channel", "timestamp">>],
    [name |-> "slack_pins_list", required |-> <<"channel">>],
    [name |-> "slack_reactions_remove", required |-> <<"channel", "timestamp", "name">>],
    [name |-> "slack_reactions_get", required |-> <<"channel", "timestamp">>],
    [name |-> "slack_reactions_list", required |-> <<>>],
    [name |-> "slack_views_open", required |-> <<"trigger_id", "view">>],
    [name |-> "slack_views_update", required |-> <<"view_id", "view">>],
    [name |-> "slack_views_push", required |-> <<"trigger_id", "view">>]
  >>

Cases ==
  <<
    [name |-> "slack_list_channels", falsy |-> <<>>,
     msg |-> <<>>, method |-> "getChannels"],
    [name |-> "slack_post_message", falsy |-> <<"channel_id", "text">>,
     msg |-> <<"Missing required arguments: ", "channel_id", " and ", "text">>, method |-> "postMessage"],
    [name |-> "slack_reply_to_thread", falsy |-> <<"channel_id", "thread_ts", "text">>,
     msg |-> <<"Missing required arguments: ", "channel_id", ", ", "thread_ts", ", and ", "text">>, method |-> "postReply"],
    [name |-> "slack_add_reaction", falsy |-> <<"channel_id", "timestamp", "reaction">>,
     msg |-> <<"Missing required arguments: ", "channel_id", ", ", "timestamp", ", and ", "reaction">>, method |-> "addReaction"],
    [name |-> "slack_get_channel_history", falsy |-> <<"channel_id">>,
     msg |-> <<"Missing required argument: ", "channel_id">>, method |-> "getChannelHistory"],
    [name |-> "slack_get_thread_replies", falsy |-> <<"channel_id", "thread_ts">>,
     msg |-> <<"Missing required arguments: ", "channel_id", " and ", "thread_ts">>, method |-> "getThreadReplies"],
    [name |-> "slack_get_users", falsy |-> <<>>,
     msg |-> <<>>, method |-> "getUsers"],
    [name |-> "slack_get_user_profile", falsy |-> <<"user_id">>,
     msg |-> <<"Missing required argument: ", "user_id">>, method |-> "getUserProfile"],
    [name |-> "slack_user_email", falsy |-> <<"email">>,
     msg |-> <<"Missing required argument: ", "email">>, method |-> "getUserByEmail"],
    [name |-> "slack_canvas_create", falsy |-> <<>>,
     msg |-> <<>>, method |-> "createCanvas"],
    [name |-> "slack_canvas_edit", falsy |-> <<"canvas_id", "changes">>,
     msg |-> <<"Missing required arguments: ", "canvas_id", " and ", "changes">>, method |-> "editCanvas"],
    [name |-> "slack_channel_canvas_create", falsy |-> <<"channel_id">>,
     msg |-> <<"Missing required argument: ", "channel_id">>, method |-> "createChannelCanvas"],
    [name |-> "slack_canvas_get", falsy |-> <<"canvas_id">>,
     msg |-> <<"Missing required argument: ", "canvas_id">>, method |-> "getCanvas"],
    [name |-> "slack_canvas_delete", falsy |-> <<"canvas_id">>,
     msg |-> <<"Missing required argument: ", "canvas_id">>, method |-> "deleteCanvas"],
    [name |-> "slack_canvas_access_set", falsy |-> <<"canvas_id", "access_level">>,
     msg |-> <<"Missing required arguments: ", "canvas_id", " and ", "access_level">>, method |-> "setCanvasAccess"],
    [name |-> "slack_files_upload", falsy |-> <<"content", "filename">>,
     msg |-> <<"Missing required arguments: ", "content", " and ", "filename">>, method |-> "uploadFile"],
    [name |-> "slack_files_list", falsy |-> <<>>,
     msg |-> <<>>, method |-> "listFiles"],
    [name |-> "slack_files_info", falsy |-> <<"file">>,
     msg |-> <<"Missing required argument: ", "file">>, method |-> "getFileInfo"],
    [name |-> "slack_files_delete", falsy |-> <<"file">>,
     msg |-> <<"Missing required argument: ", "file">>, method |-> "deleteFile"],
    [name |-> "slack_files_getUploadURLExternal", falsy |-> <<"filename">>,
     msg |-> <<"Missing required arguments: ", "filename", " and ", "length">>, method |-> "getUploadURLExternal"],
    [name |-> "slack_files_completeUploadExternal", falsy |-> <<"files">>,
     msg |-> <<"Missing required argument: ", "files", " (must be a non-empty array)">>, method |-> "completeUploadExternal"],
    [name |-> "slack_files_upload_v2", falsy |-> <<"file_path", "content", "filename">>,
     msg |-> <<"Missing required arguments: either ", "file_path", " OR both ", "content", " and ", "filename">>, method |-> "uploadFile_v2"],
    [name |-> "slack_search_messages", falsy |-> <<"query">>,
     msg |-> <<"Missing required argument: ", "query">>, method |-> "searchMessages"],
    [name |-> "slack_search_files", falsy |-> <<"query">>,
     msg |-> <<"Missing required argument: ", "query">>, method |-> "searchFiles"],
    [name |-> "slack_reminders_add", falsy |-> <<"text">>,
     msg |-> <<"Missing required arguments: ", "text", " and ", "time">>, method |-> "addReminder"],
    [name |-> "slack_reminders_list", falsy |-> <<>>,
     msg |-> <<>>, method |-> "listReminders"],
    [name |-> "slack_reminders_delete", falsy |-> <<"reminder">>,
     msg |-> <<"Missing required argument: ", "reminder">>, method |-> "deleteReminder"],
    [name |-> "slack_conversation_create", falsy |-> <<"name">>,
     msg |-> <<"Missing required argument: ", "name">>, method |-> "createConversation"],
    [name |-> "slack_conversation_archive", falsy |-> <<"channel">>,
     msg |-> <<"Missing required argument: ", "channel">>, method |-> "archiveConversation"],
    [name |-> "slack_conversation_unarchive", falsy |-> <<"channel">>,
     msg |-> <<"Missing required argument: ", "channel">>, method |-> "unarchiveConversation"],
    [name |-> "slack_conversation_invite", falsy |-> <<"channel", "users">>,
     msg |-> <<"Missing required arguments: ", "channel", " and ", "users">>, method |-> "inviteToConversation"],
    [name |-> "slack_conversation_kick", falsy |-> <<"channel", "user">>,
     msg |-> <<"Missing required arguments: ", "channel", " and ", "user">>, method |-> "kickFromConversation"],
    [name |-> "slack_conversation_rename", falsy |-> <<"channel", "name">>,
     msg |-> <<"Missing required arguments: ", "channel", " and ", "name">>, method |-> "renameConversation"],
    [name |-> "slack_conversation_set_purpose", falsy |-> <<"channel", "purpose">>,
     msg |-> <<"Missing required arguments: ", "channel", " and ", "purpose">>, method |-> "setConversationPurpose"],
    [name |-> "slack_conversation_set_topic", falsy |-> <<"channel", "topic">>,
     msg |-> <<"Missing required arguments: ", "channel", " and ", "topic">>, method |-> "setConversationTopic"],
    [name |-> "slack_conversation_join", falsy |-> <<"channel">>,
     msg |-> <<"Missing required argument: ", "channel">>, method |-> "joinConversation"],
    [name |-> "slack_conversation_leave", falsy |-> <<"channel">>,
     msg |-> <<"Missing required argument: ", "channel">>, method |-> "leaveConversation"],
    [name |-> "slack_pins_add", falsy |-> <<"channel", "timestamp">>,
     msg |-> <<"Missing required arguments: ", "channel", " and ", "timestamp">>, method |-> "addPin"],
    [name |-> "slack_pins_remove", falsy |-> <<"channel", "timestamp">>,
     msg |-> <<"Missing required arguments: ", "channel", " and ", "timestamp">>, method |-> "removePin"],
    [name |-> "slack_pins_list", falsy |-> <<"channel">>,
     msg |-> <<"Missing required argument: ", "channel">>, method |-> "listPins"],
    [name |-> "slack_reactions_remove", falsy |-> <<"channel", "timestamp", "name">>,
     msg |-> <<"Missing required arguments: ", "channel", ", ", "timestamp", ", and ", "name">>, method |-> "removeReaction"],
    [name |-> "slack_reactions_get", falsy |-> <<"channel", "timestamp">>,
     msg |-> <<"Missing required arguments: ", "channel", " and ", "timestamp">>, method |-> "getReactions"],
    [name |-> "slack_reactions_list", falsy |-> <<>>,
     msg |-> <<>>, method |-> "listReactions"],
    [name |-> "slack_views_open", falsy |-> <<"trigger_id", "view">>,
     msg |-> <<"Missing required arguments: ", "trigger_id", " and ", "view">>, method |-> "openView"],
    [name |-> "slack_views_update", falsy |-> <<"view_id", "view">>,
     msg |-> <<"Missing required arguments: ", "view_id", " and ", "view">>, method |-> "updateView"],
    [name |-> "slack_views_push", falsy |-> <<"trigger_id", "view">>,
     msg |-> <<"Missing required arguments: ", "trigger_id", " and ", "view">>, method |-> "pushView"]
  >>

ClientMethods ==
  <<
    [method |-> "getChannels", api |-> "conversations.list", http |-> "GET", useUserToken |-> FALSE, body |-> "none"],
    [method |-> "postMessage", api |-> "chat.postMessage", http |-> "POST", useUserToken |-> FALSE, body |-> "json"],
    [method |-> "postReply", api |-> "chat.postMessage", http |-> "POST", useUserToken |-> FALSE, body |-> "json"],
    [method |-> "addReaction", api |-> "reactions.add", http |-> "POST", useUserToken |-> FALSE, body |-> "json"],
    [method |-> "getChannelHistory", api |-> "conversations.history", http |-> "GET", useUserToken |-> FALSE, body |-> "none"],
    [method |-> "getThreadReplies", api |-> "conversations.replies", http |-> "GET", useUserToken |-> FALSE, body |-> "none"],
    [method |-> "getUsers", api |-> "users.list", http |-> "GET", useUserToken |-> FALSE, body |-> "none"],
    [method |-> "getUserProfile", api |-> "users.profile.get", http |-> "GET", useUserToken |-> FALSE, body |-> "none"],
    [method |-> "getUserByEmail", api |-> "users.lookupByEmail", http |-> "GET", useUserToken |-> FALSE, body |-> "none"],
    [method |-> "createCanvas", api |-> "canvases.create", http |-> "POST", useUserToken |-> FALSE, body |-> "json"],
    [method |-> "editCanvas", api |-> "canvases.edit", http |-> "POST", useUserToken |-> FALSE, body |-> "json"],
    [method |-> "createChannelCanvas", api |-> "conversations.canvases.create", http |-> "POST", useUserToken |-> FALSE, body |-> "json"],
    [method |-> "getCanvas", api |-> "canvases.sections.lookup", http |-> "POST", useUserToken |-> FALSE, body |-> "json"],
    [method |-> "deleteCanvas", api |-> "canvases.delete", http |-> "POST", useUserToken |-> FALSE, body |-> "json"],
    [method |-> "setCanvasAccess", api |-> "canvases.access.set", http |-> "POST", useUserToken |-> FALSE, body |-> "json"],
    [method |-> "uploadFile", api |-> "files.upload", http |-> "POST", useUserToken |-> TRUE, body |-> "form"],
    [method |-> "listFiles", api |-> "files.list", http |-> "GET", useUserToken |-> FALSE, body |-> "none"],
    [method |-> "getFileInfo", api |-> "files.info", http |-> "GET", useUserToken |-> FALSE, body |-> "none"],
    [method |-> "deleteFile", api |-> "files.delete", http |-> "POST", useUserToken |-> TRUE, body |-> "json"],
    [method |-> "getUploadURLExternal", api |-> "files.getUploadURLExternal", http |-> "POST", useUserToken |-> TRUE, body |-> "json"],
    [method |-> "completeUploadExternal", api |-> "files.completeUploadExternal", http |-> "POST", useUserToken |-> TRUE, body |-> "json"],
    [method |-> "searchMessages", api |-> "search.messages", http |-> "GET", useUserToken |-> TRUE, body |-> "none"],
    [method |-> "searchFiles", api |-> "search.files", http |-> "GET", useUserToken |-> TRUE, body |-> "none"],
    [method |-> "addReminder", api |-> "reminders.add", http |-> "POST", useUserToken |-> TRUE, body |-> "json"],
    [method |-> "listReminders", api |-> "reminders.list", http |-> "GET", useUserToken |-> TRUE, body |-> "none"],
    [method |-> "deleteReminder", api |-> "reminders.delete", http |-> "POST", useUserToken |-> TRUE, body |-> "json"],
    [method |-> "createConversation", api |-> "conversations.create", http |-> "POST", useUserToken |-> FALSE, body |-> "json"],
    [method |-> "archiveConversation", api |-> "conversations.archive", http |-> "POST", useUserToken |-> FALSE, body |-> "json"],
    [method |-> "unarchiveConversation", api |-> "conversations.unarchive", http |-> "POST", useUserToken |-> FALSE, body |-> "json"],
    [method |-> "inviteToConversation", api |-> "conversations.invite", http |-> "POST", useUserToken |-> FALSE, body |-> "json"],
    [method |-> "kickFromConversation", api |-> "conversations.kick", http |-> "POST", useUserToken |-> FALSE, body |-> "json"],
    [method |-> "renameConversation", api |-> "conversations.rename", http |-> "POST", useUserToken |-> FALSE, body |-> "json"],
    [method |-> "setConversationPurpose", api |-> "conversations.setPurpose", http |-> "POST", useUserToken |-> FALSE, body |-> "json"],
    [method |-> "setConversationTopic", api |-> "conversations.setTopic", http |-> "POST", useUserToken |-> FALSE, body |-> "json"],
    [method |-> "joinConversation", api |-> "conversations.join", http |-> "POST", useUserToken |-> FALSE, body |-> "json"],
    [method |-> "leaveConversation", api |-> "conversations.leave", http |-> "POST", useUserToken |-> FALSE, body |-> "json"],
    [method |-> "addPin", api |-> "pins.add", http |-> "POST", useUserToken |-> FALSE, body |-> "json"],
    [method |-> "removePin", api |-> "pins.remove", http |-> "POST", useUserToken |-> FALSE, body |-> "json"],
    [method |-> "listPins", api |-> "pins.list", http |-> "GET", useUserToken |-> FALSE, body |-> "none"],
    [method |-> "removeReaction", api |-> "reactions.remove", http |-> "POST", useUserToken |-> FALSE, body |-> "json"],
    [method |-> "getReactions", api |-> "reactions.get", http |-> "GET", useUserToken |-> FALSE, body |-> "none"],
    [method |-> "listReactions", api |-> "reactions.list", http |-> "GET", useUserToken |-> FALSE, body |-> "none"],
    [method |-> "openView", api |-> "views.open", http |-> "POST", useUserToken |-> FALSE, body |-> "json"],
    [method |-> "updateView", api |-> "views.update", http |-> "POST", useUserToken |-> FALSE, body |-> "json"],
    [method |-> "pushView", api |-> "views.push", http |-> "POST", useUserToken |-> FALSE, body |-> "json"]
  >>

Range(s) == {s[n] : n \in 1..Len(s)}

ToolNames == {t.name : t \in Range(ToolCatalog)}
\* Mutant: the switch has no case for the last tool of the catalog.
CaseNamesWithoutLast ==
  {c.name : c \in Range(Cases)} \ {ToolCatalog[Len(ToolCatalog)].name}

CaseNames == {c.name : c \in Range(Cases)}

\* Names no case of the switch matches.
UnknownNames == {"slack_nonexistent_tool"}

CaseOf(name) == CHOOSE c \in Range(Cases) : c.name = name
MethodOf(m) == CHOOSE r \in Range(ClientMethods) : r.method = m

(***************************************************************************)
(* Tool requests.  request.params.arguments is absent (hasArgs = FALSE) or *)
(* an object; `args` maps the properties it has to their values.  Only the *)
(* properties a handler branches on are enumerated; the others only flow   *)
(* into the request payload.                                               *)
(***************************************************************************)
NoArgs == [k \in {} |-> Undefined]

Arg(args, k) == IF k \in DOMAIN args THEN args[k] ELSE Undefined

SamplePath == "/tmp/report.csv"
\* A path whose base name has no extension mime-types knows.
PlainPath == "/tmp/data"
SampleContent == "Hello, world!"
\* Content with a character that takes two bytes in UTF-8.
AccentedContent == "café"
SampleFilename == "test.txt"

\* Values a property takes in the requests of the model.
FieldValues(k) ==
  CASE k = "length" -> {Num(0), Num(13)}
    [] k = "files" -> {Arr(<<>>), Arr(<<Obj(<<<<"id", Str("F123456")>>>>)>>), Str("F123456")}
    [] k = "time" -> {Str(""), Str(" "), Str("in 5 minutes"), Num(1700000000)}
    [] k \in {"changes", "channel_ids", "user_ids"} -> {Arr(<<Str("x")>>)}
    [] k = "view" -> {Obj(<<<<"type", Str("modal")>>>>)}
    [] k = "file_path" -> {Str(SamplePath), Str(PlainPath)}
    [] k = "content" -> {Str(""), Str(SampleContent), Str(AccentedContent)}
    [] k = "filename" -> {Str(""), Str(SampleFilename)}
    [] k = "filetype" -> {Str("text/csv")}
    [] OTHER -> {Str(""), Str("x")}

\* The properties of a tool's arguments its handler branches on.
BranchFields(name) ==
  CASE name = "slack_canvas_access_set" ->
         {"canvas_id", "access_level", "channel_ids", "user_ids"}
    [] name = "slack_files_getUploadURLExternal" -> {"filename", "length"}
    [] name = "slack_files_upload_v2" -> {"file_path", "content", "filename", "filetype"}
    [] name = "slack_reminders_add" -> {"text", "time"}
    [] name \in CaseNames -> Range(CaseOf(name).falsy)
    [] OTHER -> {}

ArgsOver(fields) ==
  UNION {{a \in [S -> UNION {FieldValues(k) : k \in fields}] :
            \A k \in S : a[k] \in FieldValues(k)} : S \in SUBSET fields}

RequestsFor(name) ==
  {[name |-> name, hasArgs |-> FALSE, args |-> NoArgs]}
    \cup {[name |-> name, hasArgs |-> TRUE, args |-> a] : a \in ArgsOver(BranchFields(name))}

AllRequests == UNION {RequestsFor(n) : n \in ToolNames \cup CaseNames \cup UnknownNames}

(***************************************************************************)
(* Program constants and the bounds of the model.                          *)
(***************************************************************************)
MAX_ERROR_COUNT == 10

\* Tool invocations in flight at once.
MaxInflight == 2
Slots == 1..MaxInflight

VARIABLES
  env,          \* process.env: the three variables main() reads
  phase,        \* "start", "connecting", "running" or "exited"
  exits,        \* the process.exit call made, if any: <<[code, at]>>
  errorCount,   \* main's errorCount
  timerActive,  \* errorResetInterval is set and not cleared
  client,       \* the SlackClient's botHeaders and userHeaders, once constructed
  inv,          \* per slot: one call-tool request being handled
  faults,       \* history: faults delivered since the last timer firing
  prevRun,      \* history: errorCount as the last timer firing found it
  tools,        \* the Tool constants the list-tools handler returns
  listings,     \* history: the first and the latest list-tools response
  gateway       \* one makeApiRequest call taken alone: its arguments and its request

vars == <<env, phase, exits, errorCount, timerActive, client, inv, faults, prevRun,
          tools, listings, gateway>>

harnessVars == <<errorCount, timerActive, faults, prevRun>>

catalogVars == <<tools, listings>>

(***************************************************************************)
(* SlackClient: constructor and makeApiRequest.                            *)
(***************************************************************************)
\* `${v}` in a template literal.
Interpolate(v) == IF TypeOf(v) = "string" THEN v[2] ELSE TypeOf(v)

JsonHeaders(token) ==
  ("Authorization" :> ("Bearer " \o Interpolate(token)))
    @@ ("Content-Type" :> "application/json;charset=utf-8")

NoHeaders == [h \in {} |-> ""]
NoClient == [f \in {} |-> NoHeaders]

NewSlackClient(botToken, e) ==
  [botHeaders |-> JsonHeaders(botToken),
   userHeaders |-> JsonHeaders(e.SLACK_USER_TOKEN)]

ApiUrl(api) == "https://slack.com/api/" \o api

NoCall == [via |-> "", url |-> "", http |-> "", headers |-> NoHeaders,
           body |-> [kind |-> "none", text |-> ""]]

\* Mutant: the defaults are merged under the caller's headers.
ApiRequestMerging(url, options, useUserToken, c) ==
  IF options.body.kind = "form"
  THEN [threw |-> TRUE, error |-> "Unexpected token o in JSON at position 1",
        call |-> NoCall]
  ELSE [threw |-> FALSE, error |-> "",
        call |-> [via |-> "gateway", url |-> url, http |-> options.method,
                  headers |-> options.headers
                                @@ (IF useUserToken THEN c.userHeaders ELSE c.botHeaders),
                  body |-> options.body]]

\* makeApiRequest up to the fetch call.  Logger.apiRequest's argument
\* JSON.parse(options.body) is evaluated before the try block: a body that is
\* not JSON text (FormData) makes it throw a SyntaxError and fetch is not
\* called.
ApiRequest(url, options, useUserToken, c) ==
  IF options.body.kind = "form"
  THEN [threw |-> TRUE, error |-> "Unexpected token o in JSON at position 1",
        call |-> NoCall]
  ELSE [threw |-> FALSE, error |-> "",
        call |-> [via |-> "gateway", url |-> url, http |-> options.method,
                  headers |-> IF options.headers # NoHeaders THEN options.headers
                              ELSE IF useUserToken THEN c.userHeaders
                              ELSE c.botHeaders,
                  body |-> options.body]]

\* The arguments makeApiRequest is given when it is taken alone.
CustomHeaders == ("Authorization" :> "Bearer custom") @@ ("X-Upload" :> "1")

GatewayInputs ==
  [url : {ApiUrl("chat.postMessage"), ApiUrl("files.upload")},
   options : [method : {"GET", "POST"},
              headers : {NoHeaders, CustomHeaders},
              body : {[kind |-> "none", text |-> ""],
                      [kind |-> "json", text |-> "{\"channel\":\"C1\"}"],
                      [kind |-> "form", text |-> ""]}],
   useUserToken : BOOLEAN]

NoGatewayCall == [pc |-> "none"]

\* What the remote side does with a gateway request: the fetch rejects, the
\* body is not JSON, or the body decodes to a value.
\* response.status values of the model: a success and a failure status.
HttpStatuses == {200, 500}

\* What a fetch brings; `status` is response.status (200 unless stated).
ApiOutcome(kind, body) == [kind |-> kind, body |-> body, status |-> 200]

OkBody == Obj(<<<<"ok", Bool(TRUE)>>, <<"ts", Str("1234567890.123456")>>>>)
ErrBody(code) == Obj(<<<<"ok", Bool(FALSE)>>, <<"error", Str(code)>>>>)
UrlBody == Obj(<<<<"ok", Bool(TRUE)>>,
                 <<"upload_url", Str("https://files.slack.com/upload/v1/abc123")>>,
                 <<"file_id", Str("F123456")>>>>)
\* A second Reserve answer, naming another location and another file.
OtherUrlBody == Obj(<<<<"ok", Bool(TRUE)>>,
                      <<"upload_url", Str("https://files.slack.com/upload/v1/def456")>>,
                      <<"file_id", Str("F654321")>>>>)
FilesBody == Obj(<<<<"ok", Bool(TRUE)>>,
                   <<"files", Arr(<<Obj(<<<<"id", Str("F123456")>>>>)>>)>>>>)

Bodies(api) ==
  CASE api = "files.getUploadURLExternal" ->
         {UrlBody, OtherUrlBody, ErrBody("invalid_auth"), Null}
    [] api = "files.completeUploadExternal" -> {FilesBody, ErrBody("file_not_found"), Null}
    [] api = "reminders.add" ->
         {OkBody, ErrBody("invalid_time"), ErrBody("cannot_parse"), ErrBody("time_in_past"),
          ErrBody("not_allowed"), Null}
    [] OTHER -> {OkBody, ErrBody("channel_not_found"), Null}

\* The failure status is enumerated with the ok:false bodies; makeApiRequest
\* reads response.status only to log it.
ApiOutcomes(api) ==
  {ApiOutcome("reject", Undefined), ApiOutcome("nonjson", Undefined)}
    \cup {ApiOutcome("json", b) : b \in Bodies(api)}
    \cup {[ApiOutcome("json", b) EXCEPT !.status = st] :
            b \in {x \in Bodies(api) : TypeOf(x) = "object" /\ ~Truthy(Get(x, "ok"))},
            st \in HttpStatuses}

\* makeApiRequest from the fetch result on: either the decoded body is
\* returned (whatever its ok flag) or the error is logged and rethrown.
ApiResult(o) ==
  CASE o.kind = "reject" -> [threw |-> TRUE, error |-> "fetch failed", body |-> Undefined]
    [] o.kind = "nonjson" ->
         [threw |-> TRUE, error |-> "Unexpected token < in JSON at position 0",
          body |-> Undefined]
    [] TypeOf(o.body) = "null" ->
         [threw |-> TRUE, error |-> "Cannot read properties of null (reading 'ok')",
          body |-> Undefined]
    [] OTHER -> [threw |-> FALSE, error |-> "", body |-> o.body]

(***************************************************************************)
(* The call-tool handler.                                                  *)
(***************************************************************************)
NoSession == [content |-> Undefined, filename |-> Undefined, filetype |-> Undefined,
              upload_url |-> Undefined, file_id |-> Undefined]

IdleInvocation ==
  [pc |-> "idle", name |-> "", hasArgs |-> FALSE, args |-> NoArgs,
   calls |-> <<>>, replies |-> <<>>, session |-> NoSession,
   outcome |-> "none", error |-> "", responses |-> <<>>, log |-> <<>>]

ToolResult(text) == [content |-> <<[type |-> "text", text |-> text]>>]

ErrorPayload(message, tool) ==
  Obj(<<<<"error", Str(message)>>, <<"tool", Str(tool)>>,
        <<"hint", Str("Enable debug mode with SLACK_MCP_LOG_LEVEL=debug for more details")>>>>)

\* return { content: [{ type: "text", text: JSON.stringify(response) }] }
Returned(r, value) ==
  [r EXCEPT !.pc = "done", !.outcome = "returned",
            !.responses = <<ToolResult(Stringify(value))>>]

\* Mutant: the catch block rethrows and the handler's promise rejects.
CaughtRethrown(r, message) ==
  [r EXCEPT !.pc = "done", !.outcome = "escaped", !.error = message]

\* The handler's catch block: the error is logged and becomes the response.
Caught(r, message) ==
  [r EXCEPT !.pc = "done", !.outcome = "caught", !.error = message,
            !.log = Append(@, [event |-> "error", tool |-> r.name]),
            !.responses = <<ToolResult(Stringify(ErrorPayload(message, r.name)))>>]

\* String.prototype.trim on the strings of the model.
Trim(s) == IF s = " " THEN "" ELSE s

\* Mutant: only the first field of each condition is checked.
MissingArgumentsFirstOnly(name, args) ==
  /\ CaseOf(name).falsy # <<>>
  /\ ~Truthy(Arg(args, CaseOf(name).falsy[1]))

\* The condition of a case's first `if (...) throw new Error("Missing ...")`.
MissingArguments(name, args) ==
  CASE name = "slack_files_getUploadURLExternal" ->
         \/ ~Truthy(Arg(args, "filename"))
         \/ TypeOf(Arg(args, "length")) \in {"undefined", "null"}
    [] name = "slack_files_completeUploadExternal" ->
         \/ ~Truthy(Arg(args, "files"))
         \/ TypeOf(Arg(args, "files")) # "array"
         \/ Len(Arg(args, "files")[2]) = 0
    [] name = "slack_files_upload_v2" ->
         /\ ~Truthy(Arg(args, "file_path"))
         /\ (~Truthy(Arg(args, "content")) \/ ~Truthy(Arg(args, "filename")))
    [] name = "slack_reminders_add" ->
         \/ ~Truthy(Arg(args, "text"))
         \/ TypeOf(Arg(args, "time")) \in {"undefined", "null"}
    [] OTHER -> \E k \in Range(CaseOf(name).falsy) : ~Truthy(Arg(args, k))

\* Mutant: the canvas access case does not reject channel_ids together with
\* user_ids.
ValidationErrorWithoutExclusion(name, args) ==
  IF MissingArguments(name, args) THEN Concat(CaseOf(name).msg)
  ELSE IF /\ name = "slack_reminders_add"
          /\ TypeOf(Arg(args, "time")) = "string"
          /\ Trim(Arg(args, "time")[2]) = ""
       THEN "Time cannot be an empty string"
  ELSE ""

\* The message of the error a case throws before it calls the client, or ""
\* when it throws none.
ValidationError(name, args) ==
  IF MissingArguments(name, args) THEN Concat(CaseOf(name).msg)
  ELSE IF /\ name = "slack_canvas_access_set"
          /\ Truthy(Arg(args, "channel_ids"))
          /\ Truthy(Arg(args, "user_ids"))
       THEN "Cannot specify both channel_ids and user_ids"
  ELSE IF /\ name = "slack_reminders_add"
          /\ TypeOf(Arg(args, "time")) = "string"
          /\ Trim(Arg(args, "time")[2]) = ""
       THEN "Time cannot be an empty string"
  ELSE ""

\* The RequestInit a single-call client method passes to makeApiRequest.
\* uploadFile alone passes its own headers and a FormData body.
OptionsOf(m, e) ==
  [method |-> m.http,
   headers |-> IF m.method = "uploadFile"
               THEN ("Authorization" :> ("Bearer " \o Interpolate(e.SLACK_USER_TOKEN)))
               ELSE NoHeaders,
   body |-> [kind |-> m.body, text |-> ""]]

\* A client method that makes one gateway request, up to its await.
StartMethod(r, m, c, e) ==
  LET q == ApiRequest(ApiUrl(m.api), OptionsOf(m, e), m.useUserToken, c)
  IN IF q.threw THEN Caught(r, q.error)
     ELSE [r EXCEPT !.pc = "call", !.calls = Append(@, q.call)]

\* Mutant: only invalid_time gets a hint.
RemindersHintInvalidTimeOnly(response) ==
  IF Truthy(Get(response, "ok")) THEN response
  ELSE IF Get(response, "error") = Str("invalid_time")
       THEN Put(response, "hint",
                Str("Time format not recognized. Try 'tomorrow at 3pm' or a Unix timestamp"))
  ELSE response

\* Mutant: every failed response gets a hint.
RemindersHintAlways(response) ==
  IF Truthy(Get(response, "ok")) THEN response
  ELSE Put(response, "hint", Str("The specified time is in the past"))

\* case "slack_reminders_add": a hint is added to some failed responses.
RemindersHint(response) ==
  IF Truthy(Get(response, "ok")) THEN response
  ELSE IF Get(response, "error") = Str("invalid_time")
       THEN Put(response, "hint",
                Str("Time format not recognized. Try 'tomorrow at 3pm' or a Unix timestamp"))
  ELSE IF Get(response, "error") = Str("cannot_parse")
       THEN Put(response, "hint",
                Str("Could not parse the time. Use natural language like 'in 2 hours' or 'next Monday at 9am'"))
  ELSE IF Get(response, "error") = Str("time_in_past")
       THEN Put(response, "hint", Str("The specified time is in the past"))
  ELSE response

\* What a case does with the client's response before it wraps it.
CaseResponse(name, response) ==
  IF name = "slack_reminders_add" THEN RemindersHint(response) ELSE response

(***************************************************************************)
(* SlackClient.uploadFile_v2.                                              *)
(***************************************************************************)
\* Buffer.from(s, 'utf8').length: one byte per ASCII character, two for the
\* accented one.
ByteLength(s) == IF s = AccentedContent THEN Len(s) + 1 ELSE Len(s)

\* path.basename and mime-types' lookup on the paths of the model.
Basename(p) ==
  CASE p = SamplePath -> "report.csv"
    [] p = PlainPath -> "data"
    [] OTHER -> p

MimeLookup(p) == IF p = SamplePath THEN Str("text/csv") ELSE Bool(FALSE)

FileData == "id,name"

\* Step 1: getUploadURLExternal({filename, length}) up to its await.
GetUploadURLExternal(r, c) ==
  LET payload == Obj(<<<<"filename", r.session.filename>>,
                       <<"length", Num(ByteLength(r.session.content[2]))>>,
                       <<"alt_text", Undefined>>>>)
      q == ApiRequest(ApiUrl("files.getUploadURLExternal"),
                      [method |-> "POST", headers |-> NoHeaders,
                       body |-> [kind |-> "json", text |-> Stringify(payload)]],
                      TRUE, c)
  IN [r EXCEPT !.pc = "reserve", !.calls = Append(@, q.call)]

\* Mutant: the final else branch uploads empty content instead of throwing.
UploadFile_v2Unchecked(r, c) ==
  IF Truthy(Arg(r.args, "file_path")) THEN [r EXCEPT !.pc = "readFile"]
  ELSE GetUploadURLExternal(
         [r EXCEPT !.session =
            [NoSession EXCEPT !.content = Str(""), !.filename = Arg(r.args, "filename"),
                              !.filetype = Str("text/plain")]], c)

\* Input resolution, up to the first await.
UploadFile_v2(r, c) ==
  IF Truthy(Arg(r.args, "file_path")) THEN [r EXCEPT !.pc = "readFile"]
  ELSE IF Truthy(Arg(r.args, "content")) /\ Truthy(Arg(r.args, "filename"))
       THEN GetUploadURLExternal(
              [r EXCEPT !.session =
                 [NoSession EXCEPT
                    !.content = Arg(r.args, "content"),
                    !.filename = Arg(r.args, "filename"),
                    !.filetype = IF Truthy(Arg(r.args, "filetype"))
                                 THEN Arg(r.args, "filetype") ELSE Str("text/plain")]], c)
  ELSE Caught(r, "Either file_path or both content and filename are required for file upload")

\* Mutant: inline content, when given, is used instead of the file's.
AfterReadFilePreferringInline(r, readOk, c) ==
  LET p == Arg(r.args, "file_path")[2]
  IN IF ~readOk
     THEN Caught(r, "Failed to read file at " \o p \o ": "
                      \o "ENOENT: no such file or directory, open '" \o p \o "'")
     ELSE GetUploadURLExternal(
            [r EXCEPT !.session =
               [NoSession EXCEPT
                  !.content = IF Truthy(Arg(r.args, "content")) THEN Arg(r.args, "content")
                              ELSE Str(FileData),
                  !.filename = IF Truthy(Arg(r.args, "filename"))
                               THEN Arg(r.args, "filename") ELSE Str(Basename(p)),
                  !.filetype = IF ~Truthy(Arg(r.args, "filetype"))
                               THEN (IF Truthy(MimeLookup(p)) THEN MimeLookup(p)
                                     ELSE Str("application/octet-stream"))
                               ELSE Arg(r.args, "filetype")]], c)

\* The file_path branch from the result of fs.readFile on.
AfterReadFile(r, readOk, c) ==
  LET p == Arg(r.args, "file_path")[2]
  IN IF ~readOk
     THEN Caught(r, "Failed to read file at " \o p \o ": "
                      \o "ENOENT: no such file or directory, open '" \o p \o "'")
     ELSE GetUploadURLExternal(
            [r EXCEPT !.session =
               [NoSession EXCEPT
                  !.content = Str(FileData),
                  !.filename = IF Truthy(Arg(r.args, "filename"))
                               THEN Arg(r.args, "filename") ELSE Str(Basename(p)),
                  !.filetype = IF ~Truthy(Arg(r.args, "filetype"))
                               THEN (IF Truthy(MimeLookup(p)) THEN MimeLookup(p)
                                     ELSE Str("application/octet-stream"))
                               ELSE Arg(r.args, "filetype")]], c)

\* Mutant: the transfer carries the user token's bearer header.
TransferCallAuthorized(s) ==
  [via |-> "fetch", url |-> Interpolate(s.upload_url), http |-> "POST",
   headers |-> ("Authorization" :> "Bearer xoxp-user")
                 @@ ("Content-Type" :> (IF Truthy(s.filetype) THEN s.filetype[2]
                                        ELSE "application/octet-stream")),
   body |-> [kind |-> "raw", text |-> s.content[2]]]

\* Step 2: the POST of the content to upload_url, up to its await.
TransferCall(s) ==
  [via |-> "fetch", url |-> Interpolate(s.upload_url), http |-> "POST",
   headers |-> ("Content-Type" :> (IF Truthy(s.filetype) THEN s.filetype[2]
                                   ELSE "application/octet-stream")),
   body |-> [kind |-> "raw", text |-> s.content[2]]]

\* Mutant: the ok flag of the step 1 response is not checked.
AfterUploadURLUnchecked(r, o) ==
  LET res == ApiResult(o)
  IN IF res.threw THEN Caught(r, res.error)
     ELSE LET s == [r.session EXCEPT !.upload_url = Get(res.body, "upload_url"),
                                     !.file_id = Get(res.body, "file_id")]
          IN [r EXCEPT !.pc = "transfer", !.session = s,
                       !.calls = Append(@, TransferCall(s))]

\* From the response of step 1 on.
AfterUploadURL(r, o) ==
  LET res == ApiResult(o)
  IN IF res.threw THEN Caught(r, res.error)
     ELSE IF ~Truthy(Get(res.body, "ok")) THEN Returned(r, res.body)
     ELSE LET s == [r.session EXCEPT !.upload_url = Get(res.body, "upload_url"),
                                     !.file_id = Get(res.body, "file_id")]
          IN [r EXCEPT !.pc = "transfer", !.session = s,
                       !.calls = Append(@, TransferCall(s))]

TransferOutcomes == {"http_ok", "http_error", "reject"}

\* `v?.[0]`
FirstOf(v) == IF TypeOf(v) = "array" /\ Len(v[2]) > 0 THEN v[2][1] ELSE Undefined

\* Step 3: completeUploadExternal up to its await.
CompleteUploadExternal(r, c) ==
  LET title == IF Truthy(Arg(r.args, "title")) THEN Arg(r.args, "title")
               ELSE r.session.filename
      payload == Obj(<<<<"files", Arr(<<Obj(<<<<"id", r.session.file_id>>,
                                               <<"title", title>>>>)>>)>>,
                       <<"channel_id", FirstOf(Arg(r.args, "channels"))>>,
                       <<"initial_comment", Arg(r.args, "initial_comment")>>,
                       <<"thread_ts", Arg(r.args, "thread_ts")>>>>)
      q == ApiRequest(ApiUrl("files.completeUploadExternal"),
                      [method |-> "POST", headers |-> NoHeaders,
                       body |-> [kind |-> "json", text |-> Stringify(payload)]],
                      TRUE, c)
  IN [r EXCEPT !.pc = "finalize", !.calls = Append(@, q.call)]

\* Mutant: uploadResponse.ok is not checked.
AfterTransferUnchecked(r, t, c) ==
  IF t = "reject" THEN Caught(r, "fetch failed") ELSE CompleteUploadExternal(r, c)

\* From the response of step 2 on.
AfterTransfer(r, t, c) ==
  CASE t = "reject" -> Caught(r, "fetch failed")
    [] t = "http_error" -> Caught(r, "Upload failed: " \o "Internal Server Error")
    [] OTHER -> CompleteUploadExternal(r, c)

\* Mutant: a step 3 response with ok false is thrown.
AfterCompleteThrowing(r, o) ==
  LET res == ApiResult(o)
  IN IF res.threw THEN Caught(r, res.error)
     ELSE IF ~Truthy(Get(res.body, "ok")) THEN Caught(r, Interpolate(Get(res.body, "error")))
     ELSE Returned(r, res.body)

\* From the response of step 3 on.
AfterComplete(r, o) ==
  LET res == ApiResult(o)
  IN IF res.threw THEN Caught(r, res.error) ELSE Returned(r, res.body)

(***************************************************************************)
(* The handler from its entry to its first await.                          *)
(***************************************************************************)
\* Mutant: the arguments check is missing.
HasArgumentsUnchecked(r) == TRUE

\* `request.params.arguments` is truthy.
HasArguments(r) == r.hasArgs

\* Mutant: the switch has no default case; the handler falls out of it and
\* returns nothing.
UnknownToolFallsThrough(r) == [r EXCEPT !.pc = "done", !.outcome = "returned"]

\* The default case of the switch.
UnknownTool(r) == Caught(r, "Unknown tool: " \o r.name)

\* Logger.info(`Tool called: ...`) at the handler's entry.  `log` holds the
\* handler's own entry and exit events; the gateway's and the cases' further
\* Logger calls are not recorded.
Entered(r) ==
  [r EXCEPT !.log = Append(@, [event |-> "entry", tool |-> r.name,
                               hasArguments |-> r.hasArgs])]

Dispatch(r0, c, e) ==
  LET r == Entered(r0) IN
  IF ~HasArguments(r) THEN Caught(r, "No arguments provided")
  ELSE IF r.name \notin CaseNames THEN UnknownTool(r)
  ELSE IF ValidationError(r.name, r.args) # "" THEN Caught(r, ValidationError(r.name, r.args))
  ELSE IF r.name = "slack_files_upload_v2" THEN UploadFile_v2(r, c)
  ELSE StartMethod(r, MethodOf(CaseOf(r.name).method), c, e)

\* From the response of a single-call method on.
AfterCall(r, o) ==
  LET res == ApiResult(o)
  IN IF res.threw THEN Caught(r, res.error)
     ELSE Returned(r, CaseResponse(r.name, res.body))

PendingApi(r) == MethodOf(CaseOf(r.name).method).api

(***************************************************************************)
(* Actions of the call-tool handler: one per run of code between awaits.   *)
(***************************************************************************)
CallTool(i, req) ==
  /\ phase = "running"
  /\ inv[i].pc = "idle"
  /\ inv' = [inv EXCEPT ![i] =
               Dispatch([IdleInvocation EXCEPT !.name = req.name,
                                               !.hasArgs = req.hasArgs,
                                               !.args = req.args], client, env)]
  /\ UNCHANGED <<env, catalogVars, gateway, phase, exits, client, harnessVars>>

\* Mutant: a failed request also fails the requests the other invocations
\* are waiting for.
ApiReplyCrossed(i, o) ==
  /\ phase = "running"
  /\ inv[i].pc = "call"
  /\ o \in ApiOutcomes(PendingApi(inv[i]))
  /\ inv' = [j \in Slots |->
               IF j = i THEN AfterCall([inv[i] EXCEPT !.replies = Append(@, o)], o)
               ELSE IF ApiResult(o).threw /\ inv[j].pc = "call"
                    THEN Caught(inv[j], ApiResult(o).error)
               ELSE inv[j]]
  /\ UNCHANGED <<env, catalogVars, gateway, phase, exits, client, harnessVars>>

\* Mutant: a request that fails is counted as a fault.
ApiReplyCounting(i, o) ==
  /\ phase = "running"
  /\ inv[i].pc = "call"
  /\ o \in ApiOutcomes(PendingApi(inv[i]))
  /\ inv' = [inv EXCEPT ![i] = AfterCall([@ EXCEPT !.replies = Append(@, o)], o)]
  /\ errorCount' = IF ApiResult(o).threw THEN errorCount + 1 ELSE errorCount
  /\ UNCHANGED <<env, catalogVars, gateway, phase, exits, client, timerActive, faults, prevRun>>

ApiReply(i, o) ==
  /\ phase = "running"
  /\ inv[i].pc = "call"
  /\ o \in ApiOutcomes(PendingApi(inv[i]))
  /\ inv' = [inv EXCEPT ![i] = AfterCall([@ EXCEPT !.replies = Append(@, o)], o)]
  /\ UNCHANGED <<env, catalogVars, gateway, phase, exits, client, harnessVars>>

ReadFileReply(i, readOk) ==
  /\ phase = "running"
  /\ inv[i].pc = "readFile"
  /\ inv' = [inv EXCEPT ![i] = AfterReadFile(@, readOk, client)]
  /\ UNCHANGED <<env, catalogVars, gateway, phase, exits, client, harnessVars>>

\* Mutant: upload_url and file_id are kept in one place shared by the
\* uploads in flight, as fields of the client would be.
UploadURLReplyShared(i, o) ==
  /\ phase = "running"
  /\ inv[i].pc = "reserve"
  /\ o \in ApiOutcomes("files.getUploadURLExternal")
  /\ LET mine == AfterUploadURL([inv[i] EXCEPT !.replies = Append(@, o)], o)
     IN inv' = [j \in Slots |->
                  IF j = i THEN mine
                  ELSE IF inv[j].pc = "transfer" /\ mine.pc = "transfer"
                       THEN [inv[j] EXCEPT !.session.upload_url = mine.session.upload_url,
                                           !.session.file_id = mine.session.file_id]
                  ELSE inv[j]]
  /\ UNCHANGED <<env, catalogVars, gateway, phase, exits, client, harnessVars>>

UploadURLReply(i, o) ==
  /\ phase = "running"
  /\ inv[i].pc = "reserve"
  /\ o \in ApiOutcomes("files.getUploadURLExternal")
  /\ inv' = [inv EXCEPT ![i] = AfterUploadURL([@ EXCEPT !.replies = Append(@, o)], o)]
  /\ UNCHANGED <<env, catalogVars, gateway, phase, exits, client, harnessVars>>

TransferReply(i, t) ==
  /\ phase = "running"
  /\ inv[i].pc = "transfer"
  /\ inv' = [inv EXCEPT ![i] =
               AfterTransfer([@ EXCEPT !.replies = Append(@, ApiOutcome(t, Undefined))],
                             t, client)]
  /\ UNCHANGED <<env, catalogVars, gateway, phase, exits, client, harnessVars>>

CompleteReply(i, o) ==
  /\ phase = "running"
  /\ inv[i].pc = "finalize"
  /\ o \in ApiOutcomes("files.completeUploadExternal")
  /\ inv' = [inv EXCEPT ![i] = AfterComplete([@ EXCEPT !.replies = Append(@, o)], o)]
  /\ UNCHANGED <<env, catalogVars, gateway, phase, exits, client, harnessVars>>

\* The handler's promise has resolved: the response goes to the transport and
\* the invocation is over.
Respond(i) ==
  /\ phase = "running"
  /\ inv[i].pc = "done"
  /\ inv' = [inv EXCEPT ![i] = IdleInvocation]
  /\ UNCHANGED <<env, catalogVars, gateway, phase, exits, client, harnessVars>>

(***************************************************************************)
(* The list-tools handler.                                                 *)
(***************************************************************************)
\* Mutant: the handler takes the descriptors out of the array it returns.
ListToolsConsuming ==
  /\ phase = "running"
  /\ tools # <<>>
  /\ listings' = IF listings = <<>> THEN <<[tools |-> tools]>>
                 ELSE <<listings[1], [tools |-> tools]>>
  /\ tools' = Tail(tools)
  /\ UNCHANGED <<env, gateway, phase, exits, client, inv, harnessVars>>

\* return { tools: [...] }
ListTools ==
  /\ phase = "running"
  /\ listings' = IF listings = <<>> THEN <<[tools |-> tools]>>
                 ELSE <<listings[1], [tools |-> tools]>>
  /\ UNCHANGED <<env, gateway, phase, exits, client, inv, harnessVars, tools>>

(***************************************************************************)
(* main(): startup and the resilience harness.                             *)
(***************************************************************************)
\* Mutant: every exit uses status 1.
ExitStatusOne(code, at) ==
  /\ phase' = "exited"
  /\ exits' = <<[code |-> 1, at |-> at]>>

Exit(code, at) ==
  /\ phase' = "exited"
  /\ exits' = <<[code |-> code, at |-> at]>>

\* Mutant: the environment check also requires SLACK_USER_TOKEN.
MainRequiringUserToken ==
  /\ phase = "start"
  /\ timerActive' = TRUE
  /\ IF \/ ~Truthy(env.SLACK_BOT_TOKEN)
        \/ ~Truthy(env.SLACK_TEAM_ID)
        \/ ~Truthy(env.SLACK_USER_TOKEN)
     THEN Exit(1, "config") /\ UNCHANGED client
     ELSE /\ client' = NewSlackClient(env.SLACK_BOT_TOKEN, env)
          /\ phase' = "connecting"
          /\ UNCHANGED exits
  /\ UNCHANGED <<env, catalogVars, gateway, errorCount, inv, faults, prevRun>>

\* main() from its entry to `await server.connect(transport)`.
Main ==
  /\ phase = "start"
  /\ timerActive' = TRUE
  /\ IF ~Truthy(env.SLACK_BOT_TOKEN) \/ ~Truthy(env.SLACK_TEAM_ID)
     THEN Exit(1, "config") /\ UNCHANGED client
     ELSE /\ client' = NewSlackClient(env.SLACK_BOT_TOKEN, env)
          /\ phase' = "connecting"
          /\ UNCHANGED exits
  /\ UNCHANGED <<env, catalogVars, gateway, errorCount, inv, faults, prevRun>>

Connected ==
  /\ phase = "connecting"
  /\ phase' = "running"
  /\ UNCHANGED <<env, catalogVars, gateway, exits, client, inv, harnessVars>>

\* Mutant: the failure of server.connect is also counted as a fault.
ConnectFailedCounted ==
  /\ phase = "connecting"
  /\ Exit(1, "startup")
  /\ errorCount' = errorCount + 1
  /\ faults' = faults + 1
  /\ UNCHANGED <<env, catalogVars, gateway, client, inv, timerActive, prevRun>>

\* server.connect rejects: main's catch rethrows, main().catch exits.
ConnectFailed ==
  /\ phase = "connecting"
  /\ Exit(1, "startup")
  /\ UNCHANGED <<env, catalogVars, gateway, client, inv, harnessVars>>

Installed == phase \in {"connecting", "running"}

\* Mutant: the threshold test is `>` instead of `>=`.
CountFaultOffByOne ==
  /\ errorCount' = errorCount + 1
  /\ faults' = faults + 1
  /\ IF errorCount + 1 > MAX_ERROR_COUNT
     THEN Exit(1, "faults")
     ELSE UNCHANGED <<phase, exits>>
  /\ UNCHANGED <<env, catalogVars, gateway, timerActive, client, inv, prevRun>>

\* The body the two fault handlers share.
CountFault ==
  /\ errorCount' = errorCount + 1
  /\ faults' = faults + 1
  /\ IF errorCount + 1 >= MAX_ERROR_COUNT
     THEN Exit(1, "faults")
     ELSE UNCHANGED <<phase, exits>>
  /\ UNCHANGED <<env, catalogVars, gateway, timerActive, client, inv, prevRun>>

UncaughtException == Installed /\ CountFault

\* Mutant: an unhandled rejection ends the process at once.
UnhandledRejectionFatal ==
  /\ Installed
  /\ errorCount' = errorCount + 1
  /\ faults' = faults + 1
  /\ Exit(1, "faults")
  /\ UNCHANGED <<env, catalogVars, gateway, timerActive, client, inv, prevRun>>

UnhandledRejection == Installed /\ CountFault

\* Mutant: the callback logs but does not zero the count.
ErrorResetTimerKeeping ==
  /\ Installed
  /\ timerActive
  /\ faults' = 0
  /\ prevRun' = errorCount
  /\ UNCHANGED <<env, catalogVars, gateway, phase, exits, errorCount, timerActive, client, inv>>

\* The setInterval callback.
ErrorResetTimer ==
  /\ Installed
  /\ timerActive
  /\ errorCount' = IF errorCount > 0 THEN 0 ELSE errorCount
  /\ faults' = 0
  /\ prevRun' = errorCount
  /\ UNCHANGED <<env, catalogVars, gateway, phase, exits, timerActive, client, inv>>

\* Mutant: the handler exits without clearing the interval.
ShutdownKeepingTimer(signal) ==
  /\ Installed
  /\ Exit(0, signal)
  /\ UNCHANGED <<env, catalogVars, gateway, errorCount, timerActive, client, inv, faults, prevRun>>

\* SIGINT or SIGTERM.
Shutdown(signal) ==
  /\ Installed
  /\ timerActive' = FALSE
  /\ Exit(0, signal)
  /\ UNCHANGED <<env, catalogVars, gateway, errorCount, client, inv, faults, prevRun>>

Signals == {"SIGINT", "SIGTERM"}

Environments ==
  [SLACK_BOT_TOKEN : {Undefined, Str("xoxb-bot")},
   SLACK_TEAM_ID : {Undefined, Str("T0001")},
   SLACK_USER_TOKEN : {Undefined, Str("xoxp-user")}]

InitProgram ==
  /\ env \in Environments
  /\ phase = "start"
  /\ exits = <<>>
  /\ errorCount = 0
  /\ timerActive = FALSE
  /\ client = NoClient
  /\ inv = [i \in Slots |-> IdleInvocation]
  /\ faults = 0
  /\ prevRun = 0
  /\ tools = ToolCatalog
  /\ listings = <<>>

Init ==
  /\ InitProgram
  /\ gateway = NoGatewayCall

AllOutcomes == UNION {ApiOutcomes(m.api) : m \in Range(ClientMethods)}

\* The requests of the full program's specification.
CoreRequests ==
  {q \in RequestsFor("slack_post_message") \cup RequestsFor("slack_nonexistent_tool") :
     \A k \in DOMAIN q.args : q.args[k] # Str("")}
    \cup {q \in RequestsFor("slack_files_upload_v2") :
            q.hasArgs /\ DOMAIN q.args \in {{"content", "filename"}, {"file_path"}}
              /\ \A k \in DOMAIN q.args :
                   q.args[k] \notin {Str(""), Str(AccentedContent), Str(PlainPath)}}

\* The requests of the invocations that run beside the one under study: a
\* message post that the remote side may fail, and an unknown tool.
BackgroundRequests ==
  {q \in CoreRequests :
     \/ q.name = "slack_post_message" /\ DOMAIN q.args = {"channel_id", "text"}
     \/ q.name = "slack_nonexistent_tool" /\ q.hasArgs /\ DOMAIN q.args = {}}

\* Slot 1 takes every request, slot 2 the background requests, and any
\* further slot the unknown tool.
RequestsAt(i) ==
  CASE i = 1 -> AllRequests
    [] i = 2 -> BackgroundRequests
    [] OTHER -> {q \in BackgroundRequests : q.name = "slack_nonexistent_tool"}

\* Uploads side by side: slot 1 uploads a file or inline content, slot 2
\* other inline content, and any further slot calls the unknown tool.
UploadRequestsAt(i) ==
  CASE i = 1 ->
         {q \in RequestsFor("slack_files_upload_v2") :
            /\ q.hasArgs
            /\ \/ DOMAIN q.args = {"file_path"} /\ q.args["file_path"] = Str(SamplePath)
               \/ /\ DOMAIN q.args = {"content", "filename"}
                  /\ q.args = [content |-> Str(AccentedContent), filename |-> Str(SampleFilename)]}
    [] i = 2 ->
         {q \in RequestsFor("slack_files_upload_v2") :
            /\ q.hasArgs
            /\ DOMAIN q.args = {"content", "filename", "filetype"}
            /\ q.args["content"] = Str(SampleContent)
            /\ q.args["filename"] = Str(SampleFilename)}
    [] OTHER -> {q \in BackgroundRequests : q.name = "slack_nonexistent_tool"}

Startup == Main \/ Connected \/ ConnectFailed

\* makeApiRequest taken alone, on arguments given from the start, once the
\* client is constructed.
InitGateway ==
  /\ InitProgram
  /\ \E a \in GatewayInputs : gateway = [pc |-> "input", args |-> a]

MakeApiRequest ==
  /\ gateway.pc = "input"
  /\ client # NoClient
  /\ gateway' = [pc |-> "called", args |-> gateway.args,
                 request |-> ApiRequest(gateway.args.url, gateway.args.options,
                                        gateway.args.useUserToken, client)]
  /\ UNCHANGED <<env, catalogVars, phase, exits, client, inv, harnessVars>>

NextGateway == Startup \/ MakeApiRequest

SpecGateway == InitGateway /\ [][NextGateway]_vars

ToolReplies ==
  \/ \E i \in Slots, o \in AllOutcomes : ApiReply(i, o)
  \/ \E i \in Slots, readOk \in BOOLEAN : ReadFileReply(i, readOk)
  \/ \E i \in Slots, o \in AllOutcomes : UploadURLReply(i, o)
  \/ \E i \in Slots, t \in TransferOutcomes : TransferReply(i, t)
  \/ \E i \in Slots, o \in AllOutcomes : CompleteReply(i, o)
  \/ \E i \in Slots : Respond(i)

\* Every tool with every enumerated request; no fault, timer or signal.
NextTools ==
  \/ Startup
  \/ \E i \in Slots : \E req \in RequestsAt(i) : CallTool(i, req)
  \/ ToolReplies

SpecTools == Init /\ [][NextTools]_vars

UploadReplies ==
  \/ \E i \in Slots, readOk \in BOOLEAN : ReadFileReply(i, readOk)
  \/ \E i \in Slots, o \in AllOutcomes : UploadURLReply(i, o)
  \/ \E i \in Slots, t \in TransferOutcomes : TransferReply(i, t)
  \/ \E i \in Slots, o \in AllOutcomes : CompleteReply(i, o)
  \/ \E i \in Slots : Respond(i)

\* Two-phase uploads in flight together, their steps interleaving at every
\* await.
NextUploads ==
  \/ Startup
  \/ \E i \in Slots : \E req \in UploadRequestsAt(i) : CallTool(i, req)
  \/ UploadReplies

SpecUploads == Init /\ [][NextUploads]_vars

\* The whole program on the core requests, one invocation at a time.
Next ==
  \/ Startup
  \/ \E req \in CoreRequests : CallTool(1, req)
  \/ ToolReplies
  \/ UncaughtException
  \/ UnhandledRejection
  \/ ErrorResetTimer
  \/ \E signal \in Signals : Shutdown(signal)
  \/ ListTools

Spec == Init /\ [][Next]_vars

(***************************************************************************)
(* Properties.                                                             *)
(***************************************************************************)
Started(r) == r.pc # "idle"
Done(r) == r.pc = "done"

\* The text of the single content part of the response of a finished invocation.
TextOf(r) == r.responses[1].content[1].text

\* The response is one content part of kind text.
OneTextPart(r) ==
  /\ Len(r.responses) = 1
  /\ Len(r.responses[1].content) = 1
  /\ r.responses[1].content[1].type = "text"

\* The response is the structured error payload for `message`.
IsErrorPayload(r, message) ==
  /\ r.outcome = "caught"
  /\ r.error = message
  /\ OneTextPart(r)
  /\ TextOf(r) = Stringify(ErrorPayload(message, r.name))

LastReply(r) == r.replies[Len(r.replies)]

IsObject(v) == TypeOf(v) = "object"

\* The response wraps the body the remote side sent last.
IsWrappedRemoteResult(r) ==
  /\ r.outcome = "returned"
  /\ r.replies # <<>>
  /\ LastReply(r).kind = "json"
  /\ OneTextPart(r)
  /\ TextOf(r) = Stringify(CaseResponse(r.name, LastReply(r).body))

\* C1 (state part): a finished invocation has exactly one response, the
\* wrapped remote result or the error payload, with one text part; an
\* unfinished one has none; no exception leaves the handler.
C1_Responses ==
  \A i \in Slots :
    /\ Done(inv[i]) =>
         /\ inv[i].outcome \in {"returned", "caught"}
         /\ IsWrappedRemoteResult(inv[i]) \/ IsErrorPayload(inv[i], inv[i].error)
    /\ ~Done(inv[i]) => inv[i].responses = <<>> /\ inv[i].outcome = "none"

\* C1: every tool invocation, whatever its name, arguments and remote
\* behaviour, ends with exactly one well-formed response, and no step of an
\* invocation terminates the process.
C1_ExactlyOneResponse ==
  /\ []C1_Responses
  /\ [][inv' # inv => phase' = phase /\ exits' = exits]_vars

C1_Witness ==
  \E i \in Slots :
    /\ Done(inv[i])
    /\ inv[i].name = "slack_post_message"
    /\ Len(inv[i].calls) = 1
    /\ inv[i].replies = <<ApiOutcome("reject", Undefined)>>
    /\ IsErrorPayload(inv[i], "fetch failed")

\* C2: an invocation whose arguments are absent, whatever the tool name, ends
\* with the "No arguments provided" error payload and makes no outbound call.
C2_NoArguments ==
  \A i \in Slots :
    (Started(inv[i]) /\ ~inv[i].hasArgs) =>
      /\ Done(inv[i])
      /\ IsErrorPayload(inv[i], "No arguments provided")
      /\ inv[i].calls = <<>>

C2_Witness ==
  \E i \in Slots :
    /\ Done(inv[i])
    /\ ~inv[i].hasArgs
    /\ inv[i].name = "slack_post_message"
    /\ TextOf(inv[i]) = Stringify(ErrorPayload("No arguments provided", "slack_post_message"))

\* C3 as claimed: an invocation naming a tool that is not in the catalog,
\* with arguments present or absent, ends with the UnknownTool error and makes
\* no outbound call.
C3_UnknownToolAlways ==
  \A i \in Slots :
    (Started(inv[i]) /\ inv[i].name \notin ToolNames) =>
      /\ Done(inv[i])
      /\ IsErrorPayload(inv[i], "Unknown tool: " \o inv[i].name)
      /\ inv[i].calls = <<>>

\* C3 as amended: an invocation naming a tool that is not in the catalog
\* makes no outbound call; it ends with the UnknownTool error when its
\* arguments are present and with "No arguments provided" when they are absent.
C3_UnknownTool ==
  \A i \in Slots :
    (Started(inv[i]) /\ inv[i].name \notin ToolNames) =>
      /\ Done(inv[i])
      /\ inv[i].calls = <<>>
      /\ IsErrorPayload(inv[i], IF inv[i].hasArgs THEN "Unknown tool: " \o inv[i].name
                                ELSE "No arguments provided")

C3_Witness ==
  \E i \in Slots :
    /\ Done(inv[i])
    /\ inv[i].name = "slack_nonexistent_tool"
    /\ inv[i].hasArgs
    /\ IsErrorPayload(inv[i], "Unknown tool: slack_nonexistent_tool")

\* The required list of a tool's inputSchema.
Required(name) == Range((CHOOSE t \in Range(ToolCatalog) : t.name = name).required)

IsMissingArgumentMessage(msg) ==
  /\ msg # <<>>
  /\ msg[1] \in {"Missing required argument: ", "Missing required arguments: "}

\* C4: for a tool with required fields, an invocation with arguments in which
\* a required field is absent makes no outbound call and ends with a
\* MissingArgument error payload whose message names each absent field.
C4_MissingArgument ==
  \A i \in Slots :
    LET r == inv[i]
    IN (/\ Started(r)
        /\ r.hasArgs
        /\ r.name \in ToolNames
        /\ Required(r.name) \ DOMAIN r.args # {}) =>
         /\ Done(r)
         /\ r.calls = <<>>
         /\ IsMissingArgumentMessage(CaseOf(r.name).msg)
         /\ IsErrorPayload(r, Concat(CaseOf(r.name).msg))
         /\ \A f \in Required(r.name) \ DOMAIN r.args : f \in Range(CaseOf(r.name).msg)

C4_Witness ==
  \E i \in Slots :
    /\ Done(inv[i])
    /\ inv[i].name = "slack_post_message"
    /\ inv[i].hasArgs
    /\ DOMAIN inv[i].args = {"channel_id"}
    /\ inv[i].calls = <<>>
    /\ IsErrorPayload(inv[i], "Missing required arguments: channel_id and text")

IsUpload(r) == Started(r) /\ r.name = "slack_files_upload_v2" /\ r.hasArgs

IsReserve(call) ==
  call.via = "gateway" /\ call.url = ApiUrl("files.getUploadURLExternal")

IsTransfer(call, r) ==
  /\ call.via = "fetch"
  /\ Len(r.replies) >= 1
  /\ IsObject(r.replies[1].body)
  /\ call.url = Interpolate(Get(r.replies[1].body, "upload_url"))

IsFinalize(call) ==
  call.via = "gateway" /\ call.url = ApiUrl("files.completeUploadExternal")

\* The remote side answered with a decoded object.
Decoded(o) == o.kind = "json" /\ IsObject(o.body)

ReserveOk(r) ==
  /\ Len(r.replies) >= 1
  /\ Decoded(r.replies[1])
  /\ Truthy(Get(r.replies[1].body, "ok"))

TransferOk(r) == Len(r.replies) >= 2 /\ r.replies[2].kind = "http_ok"

\* The result of the operation is `body`, as it was decoded.
ReturnedVerbatim(r, body) ==
  /\ Done(r)
  /\ r.outcome = "returned"
  /\ OneTextPart(r)
  /\ TextOf(r) = Stringify(body)

\* C5: the outbound calls of the two-phase upload are Reserve, Transfer,
\* Finalize in that order, each at most once and each issued only after the
\* previous one was answered; when Reserve reports ok:true and Transfer
\* succeeds there are exactly three calls and the result is the Finalize
\* response as it was received, whether it reports ok:true or ok:false.
C5_UploadOrder ==
  \A i \in Slots :
    LET r == inv[i]
        n == Len(r.calls)
    IN IsUpload(r) =>
         /\ n <= 3
         /\ n <= Len(r.replies) + 1
         /\ n >= 1 => IsReserve(r.calls[1])
         /\ n >= 2 => IsTransfer(r.calls[2], r)
         /\ n >= 3 => IsFinalize(r.calls[3])
         /\ (ReserveOk(r) /\ TransferOk(r)) =>
              /\ n = 3
              /\ (Len(r.replies) = 3 /\ Decoded(r.replies[3])) =>
                   ReturnedVerbatim(r, r.replies[3].body)

C5_Witness ==
  \E i \in Slots :
    /\ IsUpload(inv[i])
    /\ Len(inv[i].calls) = 3
    /\ ReserveOk(inv[i]) /\ TransferOk(inv[i])
    /\ Len(inv[i].replies) = 3
    /\ inv[i].replies[3] = ApiOutcome("json", ErrBody("file_not_found"))
    /\ ReturnedVerbatim(inv[i], ErrBody("file_not_found"))

\* C6: when the Reserve response reports ok:false the upload stops after its
\* one outbound call and the Reserve response is the result, returned and
\* not thrown.
C6_ReserveFailed ==
  \A i \in Slots :
    LET r == inv[i]
    IN (/\ IsUpload(r)
        /\ Len(r.replies) >= 1
        /\ Decoded(r.replies[1])
        /\ ~Truthy(Get(r.replies[1].body, "ok"))) =>
         /\ Len(r.calls) = 1
         /\ IsReserve(r.calls[1])
         /\ Len(r.replies) = 1
         /\ ReturnedVerbatim(r, r.replies[1].body)

C6_Witness ==
  \E i \in Slots :
    /\ IsUpload(inv[i])
    /\ inv[i].replies = <<ApiOutcome("json", ErrBody("invalid_auth"))>>
    /\ Len(inv[i].calls) = 1
    /\ ReturnedVerbatim(inv[i], ErrBody("invalid_auth"))

TransferFailed(r) ==
  Len(r.replies) >= 2 /\ r.replies[2].kind \in {"http_error", "reject"}

\* C7: when the Transfer step answers with a non-success status or fails at
\* the network level the upload throws: exactly two outbound calls were
\* made, none of them Finalize and none repeated, and the response is the
\* structured error payload.
C7_TransferFailed ==
  \A i \in Slots :
    LET r == inv[i]
    IN (IsUpload(r) /\ TransferFailed(r)) =>
         /\ Done(r)
         /\ Len(r.replies) = 2
         /\ Len(r.calls) = 2
         /\ IsReserve(r.calls[1]) /\ IsTransfer(r.calls[2], r)
         /\ IsErrorPayload(r, IF r.replies[2].kind = "reject" THEN "fetch failed"
                              ELSE "Upload failed: Internal Server Error")

C7_Witness ==
  \E i \in Slots :
    /\ IsUpload(inv[i])
    /\ Len(inv[i].replies) = 2
    /\ inv[i].replies[2].kind = "http_error"
    /\ Len(inv[i].calls) = 2
    /\ IsErrorPayload(inv[i], "Upload failed: Internal Server Error")

\* Neither a file reference nor both inline content and a filename.
NoUploadInput(args) ==
  /\ ~Truthy(Arg(args, "file_path"))
  /\ ~Truthy(Arg(args, "content")) \/ ~Truthy(Arg(args, "filename"))

\* C8: an upload-v2 invocation with neither a file reference nor both inline
\* content and a filename ends with a missing-argument error and no outbound
\* call: the dispatcher's check rejects it, and so does the coordinator's
\* input resolution when it is given the same arguments.
C8_NoUploadInput ==
  \A i \in Slots :
    LET r == inv[i]
    IN (IsUpload(r) /\ NoUploadInput(r.args)) =>
         /\ Done(r)
         /\ r.calls = <<>>
         /\ IsErrorPayload(r, "Missing required arguments: either file_path OR both content and filename")
         /\ LET direct == UploadFile_v2([IdleInvocation EXCEPT !.name = r.name,
                                                               !.hasArgs = TRUE,
                                                               !.args = r.args], client)
            IN /\ Done(direct)
               /\ direct.calls = <<>>
               /\ direct.outcome = "caught"
               /\ direct.error = "Either file_path or both content and filename are required for file upload"

C8_Witness ==
  \E i \in Slots :
    /\ IsUpload(inv[i])
    /\ DOMAIN inv[i].args = {"filename"}
    /\ Done(inv[i])
    /\ inv[i].calls = <<>>
    /\ inv[i].outcome = "caught"

ExitedByFaults == phase = "exited" /\ exits = <<[code |-> 1, at |-> "faults"]>>

\* C9: with fewer than MAX_ERROR_COUNT faults (of either kind) since the
\* last firing of the timer the fault handlers have not terminated the
\* process; the MAX_ERROR_COUNT-th one terminates it with exit status 1.
C9_FaultThreshold ==
  /\ faults <= MAX_ERROR_COUNT
  /\ faults < MAX_ERROR_COUNT => \A k \in DOMAIN exits : exits[k].at # "faults"
  /\ faults = MAX_ERROR_COUNT => ExitedByFaults

C9_Witness == ExitedByFaults /\ faults = MAX_ERROR_COUNT /\ prevRun = 0

\* C10: the count never carries over a firing of the timer: errorCount is
\* the number of faults since the last firing, so the process is terminated
\* by faults only when one run of faults between two firings reaches the
\* threshold by itself.
C10_NoAccumulation ==
  /\ errorCount = faults
  /\ (\E k \in DOMAIN exits : exits[k].at = "faults") => faults = MAX_ERROR_COUNT

C10_Witness ==
  /\ phase = "running"
  /\ exits = <<>>
  /\ prevRun = 5
  /\ faults = 5
  /\ errorCount = 5

ExitedBySignal == \E k \in DOMAIN exits : exits[k].at \in Signals

\* C11 (state part): a process that a shutdown signal ended made exactly one
\* exit call, with status 0, after clearing the reset timer, whatever the
\* fault count below the threshold was.
C11_SignalExit ==
  ExitedBySignal =>
    /\ phase = "exited"
    /\ Len(exits) = 1
    /\ exits[1].code = 0
    /\ ~timerActive
    /\ errorCount < MAX_ERROR_COUNT

\* C11: a SIGINT or SIGTERM delivered while the handlers are installed clears
\* the reset timer and exits with status 0 at any fault count below the
\* threshold, and once the process has exited neither the fault count nor
\* the exit record changes again.
C11_Shutdown ==
  /\ []C11_SignalExit
  /\ [][phase = "exited" =>
          /\ phase' = "exited"
          /\ exits' = exits
          /\ errorCount' = errorCount
          /\ faults' = faults
          /\ timerActive' = timerActive]_vars
  /\ [][(phase = "running" /\ phase' = "exited" /\ errorCount' = errorCount) =>
          /\ exits' = <<[code |-> 0, at |-> exits'[1].at]>>
          /\ exits'[1].at \in Signals
          /\ ~timerActive']_vars

C11_Witness ==
  /\ phase = "exited"
  /\ exits = <<[code |-> 0, at |-> "SIGTERM"]>>
  /\ errorCount = MAX_ERROR_COUNT - 1
  /\ ~timerActive

\* The ways the process ends once main() has connected the transport.
RunningExits == {[code |-> 1, at |-> "faults"]} \cup {[code |-> 0, at |-> s] : s \in Signals}

\* C12: once startup has completed the process ends only by the fault
\* threshold (status 1) or by a shutdown signal (status 0); a step of a tool
\* invocation, whatever its outcome, neither ends the process nor counts as
\* a fault.
C12_TerminationPaths ==
  /\ [][(phase = "running" /\ phase' # "running") =>
          /\ phase' = "exited"
          /\ Len(exits') = 1
          /\ exits'[1] \in RunningExits
          /\ inv' = inv]_vars
  /\ [][inv' # inv =>
          /\ phase' = phase
          /\ exits' = exits
          /\ errorCount' = errorCount
          /\ timerActive' = timerActive]_vars

\* A failed invocation has completed, nothing was counted and the process runs.
C12_Witness ==
  /\ phase = "running"
  /\ exits = <<>>
  /\ errorCount = 0
  /\ \E i \in Slots :
       /\ Done(inv[i])
       /\ inv[i].outcome = "caught"
       /\ inv[i].replies # <<>>
       /\ LastReply(inv[i]).kind = "reject"

\* The tools of the groups the documentation and the startup warning name as
\* needing SLACK_USER_TOKEN: files, search and reminders.
ElevatedTools ==
  {"slack_files_upload", "slack_files_getUploadURLExternal",
   "slack_files_completeUploadExternal", "slack_files_upload_v2",
   "slack_files_list", "slack_files_info", "slack_files_delete",
   "slack_search_messages", "slack_search_files",
   "slack_reminders_add", "slack_reminders_list", "slack_reminders_delete"}

\* `Bearer ${process.env.SLACK_USER_TOKEN}`
ElevatedAuthorization == "Bearer " \o Interpolate(env.SLACK_USER_TOKEN)

\* C13 as claimed: every gateway request of a file, search or reminder tool
\* carries the Authorization header built from SLACK_USER_TOKEN, never the
\* one built from SLACK_BOT_TOKEN.
C13_ElevatedCredential ==
  \A i \in Slots :
    (Started(inv[i]) /\ inv[i].name \in ElevatedTools) =>
      \A k \in DOMAIN inv[i].calls :
        inv[i].calls[k].via = "gateway" =>
          inv[i].calls[k].headers["Authorization"] = ElevatedAuthorization

\* The invocation got as far as calling makeApiRequest and no other step of
\* it (validation, fs.readFile, the transfer fetch) is what ended it.
EndedInGateway(r) ==
  /\ Done(r)
  /\ r.hasArgs
  /\ r.name \in CaseNames
  /\ ValidationError(r.name, r.args) = ""
  /\ r.name = "slack_files_upload_v2" =>
       r.replies # <<>> /\ LastReply(r).kind \notin TransferOutcomes

\* C14 as claimed: a gateway call whose body decodes with ok false, at any
\* HTTP status, is returned to the caller as a normal tool result; a gateway
\* call throws only when the request fails at the transport level or its
\* body cannot be decoded, and then the response is the error payload.
C14_GatewayThrows ==
  \A i \in Slots :
    LET r == inv[i]
    IN EndedInGateway(r) =>
         /\ (/\ r.replies # <<>>
             /\ Decoded(LastReply(r))
             /\ ~Truthy(Get(LastReply(r).body, "ok"))) => IsWrappedRemoteResult(r)
         /\ r.outcome = "caught" =>
              /\ r.replies # <<>>
              /\ LastReply(r).kind \in {"reject", "nonjson"}
              /\ IsErrorPayload(r, r.error)

\* The invocation returned what its last gateway call decoded.
ReturnedDecoded(r) ==
  /\ Done(r)
  /\ r.outcome = "returned"
  /\ r.replies # <<>>
  /\ Decoded(LastReply(r))

\* C15 as claimed: for every tool, the text part of a returned result is the
\* JSON serialization of exactly the body the gateway call decoded.
C15_VerbatimAlways ==
  \A i \in Slots :
    ReturnedDecoded(inv[i]) =>
      /\ OneTextPart(inv[i])
      /\ TextOf(inv[i]) = Stringify(LastReply(inv[i]).body)

\* The error codes for which the reminders-add case adds a hint.
HintedErrors == {Str("invalid_time"), Str("cannot_parse"), Str("time_in_past")}

HintAdded(r) ==
  /\ r.name = "slack_reminders_add"
  /\ ~Truthy(Get(LastReply(r).body, "ok"))
  /\ Get(LastReply(r).body, "error") \in HintedErrors

\* C15 as amended: the text part of a returned result is the JSON
\* serialization of exactly the decoded body, except that slack_reminders_add
\* adds one `hint` string to a body with ok false and error invalid_time,
\* cannot_parse or time_in_past, and changes nothing else of it.
C15_Verbatim ==
  \A i \in Slots :
    LET r == inv[i]
        body == LastReply(r).body
    IN ReturnedDecoded(r) =>
         /\ OneTextPart(r)
         /\ ~HintAdded(r) => TextOf(r) = Stringify(body)
         /\ HintAdded(r) =>
              /\ TypeOf(Get(body, "hint")) = "undefined"
              /\ TextOf(r) # Stringify(body)
              /\ TextOf(r) = Stringify(Put(body, "hint", Get(RemindersHint(body), "hint")))
              /\ TypeOf(Get(RemindersHint(body), "hint")) = "string"

C15_Witness ==
  \E i \in Slots :
    /\ ReturnedDecoded(inv[i])
    /\ inv[i].name = "slack_post_message"
    /\ LastReply(inv[i]).body = OkBody
    /\ TextOf(inv[i]) = "{\"ok\":true,\"ts\":\"1234567890.123456\"}"

\* The request an invocation was started with.
OwnRequest(r) ==
  [IdleInvocation EXCEPT !.name = r.name, !.hasArgs = r.hasArgs, !.args = r.args]

\* The handler run on one request alone: from `r`, with the result `readOk`
\* of its file read if it makes one, through the replies to its own calls.
RECURSIVE Replay(_, _, _)
Replay(r, replies, readOk) ==
  IF r.pc = "readFile" THEN Replay(AfterReadFile(r, readOk, client), replies, readOk)
  ELSE IF replies = <<>> \/ r.pc \notin {"call", "reserve", "transfer", "finalize"} THEN r
  ELSE LET o == Head(replies)
           r1 == [r EXCEPT !.replies = Append(@, o)]
           next == CASE r.pc = "call" -> AfterCall(r1, o)
                     [] r.pc = "reserve" -> AfterUploadURL(r1, o)
                     [] r.pc = "transfer" -> AfterTransfer(r1, o.kind, client)
                     [] r.pc = "finalize" -> AfterComplete(r1, o)
       IN Replay(next, Tail(replies), readOk)

\* C16: what an invocation has done and answered is what the handler does on
\* its own name, arguments and the replies to its own calls (and its own file
\* read), whatever other invocations completed before it or are in flight
\* beside it, succeeding or failing.
C16_Independence ==
  \A i \in Slots :
    (Started(inv[i]) /\ inv[i].pc # "readFile") =>
      \E readOk \in BOOLEAN :
        inv[i] = Replay(Dispatch(OwnRequest(inv[i]), client, env), inv[i].replies, readOk)

\* An upload is between its steps while the invocation beside it has failed.
C16_Witness ==
  \E i, j \in Slots :
    /\ i # j
    /\ inv[i].name = "slack_files_upload_v2"
    /\ inv[i].pc = "finalize"
    /\ Len(inv[i].calls) = 3
    /\ Done(inv[j])
    /\ inv[j].name = "slack_post_message"
    /\ IsErrorPayload(inv[j], "fetch failed")

\* C17: every list-tools response holds the same descriptors in the same
\* order as the first one, whatever tool invocations, faults and timer
\* firings happen between them, and nothing changes the catalog.
C17_CatalogImmutable ==
  /\ tools = ToolCatalog
  /\ \A k \in DOMAIN listings : listings[k] = [tools |-> ToolCatalog]
  /\ Len(listings) = 2 => listings[1] = listings[2]

\* Two listings were made in a run that also saw a failed invocation, faults
\* and a timer firing.
C17_Witness ==
  /\ Len(listings) = 2
  /\ listings[1] = listings[2]
  /\ Len(listings[2].tools) = 46
  /\ prevRun > 0
  /\ faults > 0
  /\ Done(inv[1]) /\ inv[1].outcome = "caught"

ExitedAtConfig == \E k \in DOMAIN exits : exits[k].at = "config"

\* C18 (state part): without SLACK_TEAM_ID the process never gets past the
\* environment check, and when it has run the check it has exited with
\* status 1 with no client built and no request handled; the check fails for
\* no other reason than a missing SLACK_BOT_TOKEN or SLACK_TEAM_ID.
C18_EnvironmentCheck ==
  /\ ~Truthy(env.SLACK_TEAM_ID) =>
       /\ phase \in {"start", "exited"}
       /\ phase = "exited" => exits = <<[code |-> 1, at |-> "config"]>>
       /\ client = NoClient
       /\ \A i \in Slots : inv[i] = IdleInvocation
       /\ listings = <<>>
  /\ ExitedAtConfig => ~Truthy(env.SLACK_BOT_TOKEN) \/ ~Truthy(env.SLACK_TEAM_ID)

C19_LegacyUpload ==
  \A i \in Slots :
    LET r == inv[i]
    IN (/\ Started(r)
        /\ r.name = "slack_files_upload"
        /\ r.hasArgs
        /\ Truthy(Arg(r.args, "content"))
        /\ Truthy(Arg(r.args, "filename"))) =>
         /\ Len(r.calls) = 1
         /\ r.calls[1].via = "gateway"
         /\ r.calls[1].url = ApiUrl("files.upload")
         /\ r.calls[1].http = "POST"
         /\ r.calls[1].body.kind = "form"
         /\ r.calls[1].headers["Authorization"] = ElevatedAuthorization
         /\ (r.replies # <<>> /\ Decoded(LastReply(r))) =>
              ReturnedVerbatim(r, LastReply(r).body)

\* C20: the Transfer request of an upload is sent with fetch to the
\* upload_url that Reserve returned, not through makeApiRequest, and its only
\* header is Content-Type: it carries no Authorization header and neither
\* credential's bearer value.
C20_TransferHeaders ==
  \A i \in Slots :
    LET r == inv[i]
    IN (IsUpload(r) /\ Len(r.calls) >= 2) =>
         /\ r.calls[2].via = "fetch"
         /\ r.calls[2].url = Interpolate(Get(r.replies[1].body, "upload_url"))
         /\ r.calls[2].url \notin {ApiUrl(m.api) : m \in Range(ClientMethods)}
         /\ r.calls[2].http = "POST"
         /\ r.calls[2].body = [kind |-> "raw", text |-> r.session.content[2]]
         /\ DOMAIN r.calls[2].headers = {"Content-Type"}
         /\ \A h \in DOMAIN r.calls[2].headers :
              r.calls[2].headers[h] \notin
                {client.botHeaders["Authorization"], client.userHeaders["Authorization"]}

C20_Witness ==
  \E i \in Slots :
    /\ IsUpload(inv[i])
    /\ inv[i].pc = "transfer"
    /\ Truthy(env.SLACK_USER_TOKEN)
    /\ inv[i].calls[1].headers["Authorization"] = "Bearer xoxp-user"
    /\ inv[i].calls[2].url = "https://files.slack.com/upload/v1/abc123"
    /\ inv[i].calls[2].headers = ("Content-Type" :> "text/plain")

\* The two headers makeApiRequest sends by default for a token.
DefaultHeaders(token) ==
  ("Authorization" :> ("Bearer " \o Interpolate(token)))
    @@ ("Content-Type" :> "application/json;charset=utf-8")

\* C21: a request makeApiRequest sends carries exactly the caller's headers
\* when the caller supplied some, with no default Authorization or JSON
\* content type merged in; otherwise it carries the Authorization and JSON
\* content-type headers of SLACK_USER_TOKEN when the flag is set and of
\* SLACK_BOT_TOKEN when it is not.
C21_HeaderSelection ==
  (gateway.pc = "called" /\ ~gateway.request.threw) =>
    LET a == gateway.args
        sent == gateway.request.call.headers
    IN /\ gateway.request.call.via = "gateway"
       /\ gateway.request.call.url = a.url
       /\ a.options.headers # NoHeaders => sent = a.options.headers
       /\ (a.options.headers = NoHeaders /\ a.useUserToken) =>
            sent = DefaultHeaders(env.SLACK_USER_TOKEN)
       /\ (a.options.headers = NoHeaders /\ ~a.useUserToken) =>
            sent = DefaultHeaders(env.SLACK_BOT_TOKEN)

\* A request was sent with the caller's own headers although the flag
\* selected the user token.
C21_Witness ==
  /\ gateway.pc = "called"
  /\ ~gateway.request.threw
  /\ gateway.args.options.headers = CustomHeaders
  /\ gateway.args.useUserToken
  /\ Truthy(env.SLACK_USER_TOKEN)
  /\ gateway.request.call.headers = CustomHeaders
  /\ "Content-Type" \notin DOMAIN gateway.request.call.headers

EntryEvent(r) == [event |-> "entry", tool |-> r.name, hasArguments |-> r.hasArgs]

\* C22 as claimed: a finished invocation has logged its entry event and then
\* exactly one exit event, a success event if it returned a remote result and
\* an error event if it returned the error payload; an unfinished one has
\* logged its entry event only.
C22_EntryAndExitLogged ==
  \A i \in Slots :
    LET r == inv[i]
    IN Started(r) =>
         /\ r.log # <<>>
         /\ r.log[1] = EntryEvent(r)
         /\ ~Done(r) => Len(r.log) = 1
         /\ Done(r) =>
              /\ Len(r.log) = 2
              /\ r.log[2].tool = r.name
              /\ r.log[2].event = IF r.outcome = "returned" THEN "success" ELSE "error"

\* C23 as claimed: before the transport is connected no fault has been
\* counted and the reset timer is not set, and the running state is entered
\* with errorCount 0.
C23_HarnessAfterConnect ==
  phase \in {"start", "connecting"} => errorCount = 0 /\ ~timerActive

\* C23 (state part, amended): the timer is set and the handlers are
\* registered from the start of main(), so they are active while the
\* transport is connecting; a start-up failure is an exit with status 1.
C23_HarnessState ==
  /\ phase = "start" => errorCount = 0 /\ ~timerActive /\ exits = <<>>
  /\ phase \in {"connecting", "running"} => timerActive /\ exits = <<>>
  /\ (\E k \in DOMAIN exits : exits[k].at \in {"config", "startup"}) =>
       exits[1].code = 1 /\ Len(exits) = 1

\* C23 as amended: the harness is active from the start of main(): faults
\* that arrive while the transport is connecting are counted like later
\* ones and carried into the running state; the failure of the start-up
\* sequence itself ends the process with status 1 and is not counted.
C23_HarnessFromStart ==
  /\ []C23_HarnessState
  /\ [][(phase = "connecting" /\ phase' = "exited" /\ exits'[1].at = "startup") =>
          errorCount' = errorCount /\ faults' = faults]_vars
  /\ [][(phase = "connecting" /\ phase' = "running") =>
          errorCount' = errorCount /\ timerActive']_vars
  /\ [][(phase = "connecting" /\ faults' = faults + 1) =>
          /\ errorCount' = errorCount + 1
          /\ IF errorCount' >= MAX_ERROR_COUNT
             THEN exits' = <<[code |-> 1, at |-> "faults"]>>
             ELSE phase' = "connecting"]_vars

\* Faults were counted before the transport was connected.
C23_Witness ==
  /\ phase = "connecting"
  /\ errorCount = 3
  /\ faults = 3
  /\ timerActive

\* C24: errorCount changes only in a fault handler, which adds exactly 1, and
\* in the timer callback, which sets it to 0; the steps of tool invocations,
\* failed ones included, and list-tools requests leave it as it is.
C24_ErrorCountFrame ==
  /\ [][errorCount' # errorCount =>
          \/ /\ errorCount' = errorCount + 1
             /\ faults' = faults + 1
             /\ inv' = inv /\ listings' = listings
          \/ /\ errorCount' = 0
             /\ errorCount > 0
             /\ prevRun' = errorCount
             /\ inv' = inv /\ listings' = listings]_vars
  /\ [][(inv' # inv \/ listings' # listings) => errorCount' = errorCount]_vars

\* A failed invocation and a listing happened in a run whose two counted
\* faults followed a timer reset from four.
C24_Witness ==
  /\ phase = "running"
  /\ errorCount = 2
  /\ prevRun = 4
  /\ listings # <<>>
  /\ Done(inv[1])
  /\ inv[1].outcome = "caught"
  /\ inv[1].calls # <<>>

\* The body of a Reserve request for `filename` and `length`.
ReserveBody(filename, length) ==
  [kind |-> "json",
   text |-> Stringify(Obj(<<<<"filename", Str(filename)>>, <<"length", Num(length)>>>>))]

\* The upload reads its content from a file.
FromFile(r) == IsUpload(r) /\ Truthy(Arg(r.args, "file_path"))

\* The upload takes its content from the arguments.
FromInline(r) ==
  /\ IsUpload(r)
  /\ ~Truthy(Arg(r.args, "file_path"))
  /\ Truthy(Arg(r.args, "content")) /\ Truthy(Arg(r.args, "filename"))

\* C25: the input of an upload is resolved before Reserve is issued.  With a
\* file reference the content is the file's, whatever inline content was
\* given, the filename is the explicit one or else the base name of the
\* reference, and the type is the explicit one or else the detected one; no
\* call is made while the file is being read, and none at all when reading
\* fails, which ends the upload with an error.  Without a file reference the
\* inline content and its filename are used and the reserved length is the
\* content's length in bytes.
C25_InputResolution ==
  \A i \in Slots :
    LET r == inv[i]
        p == Arg(r.args, "file_path")[2]
        filename == IF Truthy(Arg(r.args, "filename")) THEN Arg(r.args, "filename")[2]
                    ELSE Basename(p)
        filetype == IF Truthy(Arg(r.args, "filetype")) THEN Arg(r.args, "filetype")[2]
                    ELSE IF Truthy(MimeLookup(p)) THEN MimeLookup(p)[2]
                    ELSE "application/octet-stream"
    IN /\ FromFile(r) =>
            /\ r.pc = "readFile" => r.calls = <<>> /\ r.session = NoSession
            /\ Len(r.calls) >= 1 =>
                 /\ IsReserve(r.calls[1])
                 /\ r.calls[1].body = ReserveBody(filename, ByteLength(FileData))
            /\ Len(r.calls) >= 2 =>
                 /\ r.calls[2].body = [kind |-> "raw", text |-> FileData]
                 /\ r.calls[2].headers["Content-Type"] = filetype
            /\ (Done(r) /\ r.replies = <<>>) =>
                 /\ r.calls = <<>>
                 /\ IsErrorPayload(r, "Failed to read file at " \o p
                                        \o ": ENOENT: no such file or directory, open '"
                                        \o p \o "'")
       /\ FromInline(r) =>
            /\ r.pc # "readFile"
            /\ Len(r.calls) >= 1
            /\ IsReserve(r.calls[1])
            /\ r.calls[1].body = ReserveBody(Arg(r.args, "filename")[2],
                                             ByteLength(Arg(r.args, "content")[2]))
            /\ Arg(r.args, "content") = Str(SampleContent) =>
                 r.calls[1].body = ReserveBody(Arg(r.args, "filename")[2], 13)
            /\ Arg(r.args, "content") = Str(AccentedContent) =>
                 r.calls[1].body = ReserveBody(Arg(r.args, "filename")[2], 5)
            /\ Len(r.calls) >= 2 =>
                 r.calls[2].body = [kind |-> "raw", text |-> Arg(r.args, "content")[2]]

C25_Witness ==
  \E i \in Slots :
    /\ FromFile(inv[i])
    /\ DOMAIN inv[i].args = {"file_path", "content"}
    /\ inv[i].args["file_path"] = Str(PlainPath)
    /\ inv[i].args["content"] = Str(AccentedContent)
    /\ Len(inv[i].calls) = 2
    /\ inv[i].calls[1].body = ReserveBody("data", 7)
    /\ inv[i].calls[2].body.text = FileData
    /\ inv[i].calls[2].headers["Content-Type"] = "application/octet-stream"

\* What the upload's own arguments resolve to.
OwnFilename(r) ==
  IF Truthy(Arg(r.args, "filename")) THEN Arg(r.args, "filename")[2]
  ELSE Basename(Arg(r.args, "file_path")[2])

OwnContent(r) == IF FromFile(r) THEN FileData ELSE Arg(r.args, "content")[2]

\* The body of a Finalize request for file `id` under `title`.
FinalizeBody(id, title) ==
  [kind |-> "json",
   text |-> Stringify(Obj(<<<<"files", Arr(<<Obj(<<<<"id", id>>, <<"title", Str(title)>>>>)>>)>>>>))]

\* C26: however the steps of the uploads in flight interleave, the Transfer
\* of an upload goes to the location its own Reserve returned and carries its
\* own content, and its Finalize names the file identifier its own Reserve
\* returned under its own filename; when two uploads were given different
\* locations and identifiers neither uses the other's.
C26_UploadIsolation ==
  \A i \in Slots :
    LET r == inv[i]
    IN (IsUpload(r) /\ Len(r.calls) >= 2) =>
         /\ ReserveOk(r)
         /\ r.calls[2].via = "fetch"
         /\ r.calls[2].url = Get(r.replies[1].body, "upload_url")[2]
         /\ r.calls[2].body = [kind |-> "raw", text |-> OwnContent(r)]
         /\ r.calls[1].body = ReserveBody(OwnFilename(r), ByteLength(OwnContent(r)))
         /\ Len(r.calls) >= 3 =>
              /\ IsFinalize(r.calls[3])
              /\ r.calls[3].body = FinalizeBody(Get(r.replies[1].body, "file_id"),
                                                OwnFilename(r))
              /\ \A j \in Slots \ {i} :
                   (/\ IsUpload(inv[j]) /\ ReserveOk(inv[j])
                    /\ inv[j].replies[1].body # r.replies[1].body) =>
                      /\ r.calls[2].url # Get(inv[j].replies[1].body, "upload_url")[2]
                      /\ r.calls[3].body #
                           FinalizeBody(Get(inv[j].replies[1].body, "file_id"),
                                        OwnFilename(r))

\* Two uploads in flight, answered with different locations, the second's
\* Reserve answered while the first was waiting for its Transfer, and both
\* at Finalize.
C26_Witness ==
  \E i, j \in Slots :
    /\ i # j
    /\ IsUpload(inv[i]) /\ IsUpload(inv[j])
    /\ inv[i].args # inv[j].args
    /\ inv[i].pc = "finalize" /\ inv[j].pc = "finalize"
    /\ inv[i].replies[1].body = UrlBody
    /\ inv[j].replies[1].body = OtherUrlBody
    /\ Len(inv[i].calls) = 3 /\ Len(inv[j].calls) = 3

IsCanvasAccess(r) == Started(r) /\ r.name = "slack_canvas_access_set" /\ r.hasArgs

BothTargets(args) == Truthy(Arg(args, "channel_ids")) /\ Truthy(Arg(args, "user_ids"))

\* C27: a canvas access invocation given both channel_ids and user_ids ends
\* with the error payload and makes no outbound call; given at most one of
\* them, with canvas_id and access_level, it makes exactly one call, to
\* canvases.access.set.
C27_CanvasAccess ==
  \A i \in Slots :
    LET r == inv[i]
    IN IsCanvasAccess(r) =>
         /\ BothTargets(r.args) =>
              /\ Done(r)
              /\ r.calls = <<>>
              /\ r.replies = <<>>
              /\ IsErrorPayload(r,
                    IF Truthy(Arg(r.args, "canvas_id")) /\ Truthy(Arg(r.args, "access_level"))
                    THEN "Cannot specify both channel_ids and user_ids"
                    ELSE "Missing required arguments: canvas_id and access_level")
         /\ (/\ ~BothTargets(r.args)
             /\ Truthy(Arg(r.args, "canvas_id"))
             /\ Truthy(Arg(r.args, "access_level"))) =>
              /\ Len(r.calls) = 1
              /\ r.calls[1].via = "gateway"
              /\ r.calls[1].url = ApiUrl("canvases.access.set")

C27_Witness ==
  \E i \in Slots :
    /\ IsCanvasAccess(inv[i])
    /\ DOMAIN inv[i].args = {"canvas_id", "access_level", "channel_ids", "user_ids"}
    /\ inv[i].args["canvas_id"] = Str("x")
    /\ inv[i].args["access_level"] = Str("x")
    /\ inv[i].calls = <<>>
    /\ IsErrorPayload(inv[i], "Cannot specify both channel_ids and user_ids")

\* C28: errorCount stays between 0 and MAX_ERROR_COUNT and is below
\* MAX_ERROR_COUNT while the process runs; the fault path has ended the
\* process exactly when MAX_ERROR_COUNT faults were counted since the last
\* firing of the timer (or since the start), however many faults the run
\* before that firing had.
C28_CounterRange ==
  /\ errorCount \in 0..MAX_ERROR_COUNT
  /\ prevRun \in 0..(MAX_ERROR_COUNT - 1)
  /\ phase = "running" => errorCount < MAX_ERROR_COUNT
  /\ ExitedByFaults <=> faults = MAX_ERROR_COUNT
  /\ ExitedByFaults <=> errorCount = MAX_ERROR_COUNT

\* Eighteen faults around one firing of the timer, and the process runs.
C28_Witness ==
  /\ phase = "running"
  /\ exits = <<>>
  /\ prevRun = MAX_ERROR_COUNT - 1
  /\ errorCount = MAX_ERROR_COUNT - 1
  /\ faults = MAX_ERROR_COUNT - 1

\* The names in the array the list-tools handler returns.
ListedNames == {tools[k].name : k \in DOMAIN tools}

IsUnknownToolError(r) == Done(r) /\ r.outcome = "caught" /\ r.error = "Unknown tool: " \o r.name

\* C29: the names list-tools returns are the names the switch has a case
\* for: a listed tool invoked with arguments never ends with the unknown
\* tool error, and a tool that does is neither listed nor in the switch.
C29_CatalogMatchesDispatcher ==
  /\ ListedNames = CaseNames
  /\ Len(tools) = Cardinality(ListedNames)
  /\ \A i \in Slots :
       LET r == inv[i]
       IN (Started(r) /\ r.hasArgs) =>
            /\ r.name \in ListedNames => ~IsUnknownToolError(r)
            /\ r.name \in CaseNames => ~IsUnknownToolError(r)
            /\ (Done(r) /\ r.name \notin ListedNames) => IsUnknownToolError(r)

\* The last tool of the catalog, invoked with its arguments, reached its
\* client method and returned.
C29_Witness ==
  \E i \in Slots :
    /\ inv[i].name = ToolCatalog[Len(ToolCatalog)].name
    /\ inv[i].hasArgs
    /\ Done(inv[i])
    /\ inv[i].outcome = "returned"
    /\ Len(inv[i].calls) = 1

IsReminderAdd(r) == r.name = "slack_reminders_add" /\ ReturnedDecoded(r)

\* The response reports ok:false with one of the three codes.
ReportsTimeError(body) ==
  /\ Get(body, "ok") = Bool(FALSE)
  /\ Get(body, "error") \in {Str("invalid_time"), Str("cannot_parse"), Str("time_in_past")}

\* C30: what slack_reminders_add returns is the remote response with a hint
\* string added when, and only when, the response reports ok:false with
\* error invalid_time, cannot_parse or time_in_past; with ok:true or another
\* error code it is the response unchanged.
C30_ReminderHint ==
  \A i \in Slots :
    LET r == inv[i]
        body == LastReply(r).body
        payload == CaseResponse(r.name, body)
    IN IsReminderAdd(r) =>
         /\ OneTextPart(r)
         /\ TextOf(r) = Stringify(payload)
         /\ ReportsTimeError(body) =>
              /\ TypeOf(Get(payload, "hint")) = "string"
              /\ payload = Put(body, "hint", Get(payload, "hint"))
              /\ TextOf(r) # Stringify(body)
         /\ ~ReportsTimeError(body) =>
              /\ payload = body
              /\ TextOf(r) = Stringify(body)

C30_Witness ==
  \E i \in Slots :
    /\ IsReminderAdd(inv[i])
    /\ LastReply(inv[i]).body = ErrBody("cannot_parse")
    /\ TextOf(inv[i]) =
         "{\"ok\":false,\"error\":\"cannot_parse\",\"hint\":\"Could not parse the time. Use natural language like 'in 2 hours' or 'next Monday at 9am'\"}"

====
